---- MODULE Spec2Model ----
(***************************************************************************)
(* LinguistDaily: the multi-provider fallback orchestrator                  *)
(* (services/aiService.ts) and the preload cycle with credential recovery   *)
(* (App: refreshContent / handleSettingsSave).                              *)
(*                                                                          *)
(* Strings that the code only tests for emptiness or equality (API keys)    *)
(* are numbers: 0 is the absent / empty (falsy) key, k > 0 a key string.    *)
(* Error messages are sequences of words, so that isQuotaError's            *)
(* toLowerCase() and includes() are computed, not assumed.                  *)
(***************************************************************************)
EXTENDS Integers, Sequences, FiniteSets

VARIABLES
    env,          \* process.env.API_KEY / OPENAI_API_KEY / DEEPSEEK_API_KEY
    fsettings,    \* the ApiSettings argument of the call in flight
    svc,          \* how each provider's service answers a request right now
    fcall,        \* the executeWithFallback call in flight (or idle)
    apiSettings,      \* state.apiSettings
    storedSettings,   \* localStorage 'linguist_settings' (<<>> when absent)
    langLoadState,    \* per language: [present, loading, ready]
    preloadedContent, \* per language: -1 when absent, else the article count
    stage,            \* 'LANG' | 'SELECTION' | 'READ'
    selectedLanguage, \* state.selectedLanguage (0 is null)
    currentArticle,   \* state.currentArticle (language it came from, 0 null)
    cycles,           \* every refreshContent invocation, in order of start
    remote,           \* the remote credential store (AIProviders rows)
    saves,            \* how many times the user saved the settings modal
    restarts,         \* recovery-triggered restarts so far
    delivered,        \* distinct Gemini keys recovery fetches have delivered
    ev,               \* the last step of a cycle, for stating the claims
    fetchFailed,      \* observer: the fetches of the language in progress
                      \* that have raised (kept by SpecCycle only)
    vocabulary,       \* state.vocabulary, newest item first
    storedVocab,      \* localStorage 'linguist_vocab'
    isLoading,        \* state.isLoading (the overlay over the whole page)
    selectedWord,     \* the item shown in the word modal (NoItem is null)
    alerts,           \* how many alert() dialogs have been shown
    lookup,           \* the handleWordSelect call in flight (or none)
    nextId,           \* stands for crypto.randomUUID(): the next fresh id
    now,              \* Date.now(), in days
    reviewed,         \* the review result the last step applied (or none)
    content,          \* article.content of the article shown by ArticleView
    segmenterAvailable, \* whether the runtime has Intl.Segmenter
    duration,         \* ArticleView duration, in ticks (0 until known)
    allMapped,        \* the spans the mapping effect last computed
    sentences,        \* ArticleView sentences
    currentTime,      \* ArticleView currentTime, in ticks
    isExternalAudio,  \* TRUE: HTML5 audio element, FALSE: Web Audio
    isPlaying,        \* ArticleView isPlaying
    loopRange,        \* ArticleView loopRange (NoRange is null)
    pausedAtRef,      \* pausedAtRef.current
    startTimeRef,     \* startTimeRef.current
    sourceRef,        \* sourceRef.current (NoNode is null)
    clock,            \* audioContext.currentTime, in ticks
    audioEl,          \* the audio element: [currentTime, paused]
    ended,            \* buffer source nodes whose ended event is queued
    started,          \* the last play() call: what was asked, where it began
    loopingSentenceId, \* ArticleView loopingSentenceId (NoId is null)
    article,          \* the article the audio effect last ran for (0: none)
    audioContext,     \* ArticleView audioContext (0 is null, else a handle)
    effectContext,    \* `audioContext` as the last run of the audio effect
                      \* captured it, which is what its cleanup closes
    openContexts,     \* the audio contexts created and not closed
    sounding,         \* contexts the reader let go of with a node playing
    audioElRef,       \* audioElRef.current (0 is null, else a handle)
    elements,         \* the audio elements created and not paused and dropped
    handles,          \* how many contexts and elements have been created
    gainNodeRef,      \* the context of gainNodeRef.current (0 is null)
    volume,           \* ArticleView volume, in steps of 1 / MaxVolume
    gain,             \* gainNodeRef.current.gain.value
    elVolume,         \* the volume of the element audioElRef refers to
    audioBuffer,      \* the article whose audio audioBuffer holds (0 null)
    decoding,         \* decodeAudioData calls in flight: [ctx, article]
    rafRef,           \* rafRef.current (0 is null, else a request id)
    frames            \* the animation-frame requests that are scheduled

fvars == <<env, fsettings, svc, fcall>>

fonly == <<fsettings, svc, fcall>>

ponly == <<apiSettings, storedSettings, langLoadState, preloadedContent,
           stage, selectedLanguage, currentArticle, cycles, remote,
           saves, restarts, delivered, ev, fetchFailed>>

lonly == <<vocabulary, storedVocab, isLoading, selectedWord, alerts, lookup,
           nextId, now, reviewed>>

tonly == <<content, segmenterAvailable, allMapped, sentences>>

aonly == <<isExternalAudio, isPlaying, loopRange, pausedAtRef, startTimeRef,
           sourceRef, clock, audioEl, ended, started, loopingSentenceId>>

\* The audio backends of the reader.
monly == <<article, audioContext, effectContext, openContexts, sounding,
           audioElRef, elements, handles, gainNodeRef, volume, gain,
           elVolume>>

bonly == <<audioBuffer, decoding>>

\* The animation frames of the reader's clock.
conly == <<rafRef, frames>>

ronly == <<tonly, duration, currentTime, aonly>>

\* What the actions of each part leave alone.
notFallback == <<ponly, lonly, ronly, monly, bonly, conly>>

notPreload == <<fonly, lonly, ronly, monly, bonly, conly>>

notLookup == <<fonly, storedSettings, langLoadState, preloadedContent, stage,
               selectedLanguage, currentArticle, cycles, remote, saves,
               restarts, delivered, ev, fetchFailed, ronly, monly, bonly,
               conly>>

notReader == <<fvars, ponly, lonly, monly, bonly>>

\* As notReader, without the decoded buffer.
notMedium == <<fvars, ponly, lonly, monly>>

vars == <<fvars, ponly, lonly, ronly, monly, bonly, conly>>

----------------------------------------------------------------------------
(* Types                                                                    *)

Providers == {"gemini", "openai", "deepseek"}

\* Bounds of the model.
NumLangs == 2

NumKeys == 2

MaxGeneral == 1

MaxCycles == 4

MaxSaves == 1

MaxVocab == 2

MaxAlerts == 2

\* A provider's answer to one network request.
Kinds == {"ok", "quota", "invalid", "error"}

\* The keys object of ApiSettings with every field read through `|| ...`.
NoKeys == [gemini |-> 0, openai |-> 0, deepseek |-> 0]

----------------------------------------------------------------------------
(* isQuotaError                                                             *)

\* String.prototype.toLowerCase on one word of a message.
LowerWord(w) ==
    CASE w = "Quota" -> "quota"
      [] w = "QUOTA" -> "quota"
      [] w = "Limit" -> "limit"
      [] w = "Resource" -> "resource"
      [] w = "RESOURCE" -> "resource"
      [] w = "Exhausted" -> "exhausted"
      [] w = "EXHAUSTED" -> "exhausted"
      [] w = "RESOURCE_EXHAUSTED" -> "resource_exhausted"
      [] w = "Hallo" -> "hallo"
      [] OTHER -> w

toLowerCase(msg) == [i \in 1..Len(msg) |-> LowerWord(msg[i])]

\* String.prototype.includes at word granularity.
includes(msg, needle) ==
    \E i \in 1..Len(msg) :
        /\ i + Len(needle) - 1 <= Len(msg)
        /\ SubSeq(msg, i, i + Len(needle) - 1) = needle

\* Variant: a classifier that recognises no failure as a quota failure.
isQuotaErrorNever(error) == FALSE

isQuotaError(error) ==
    LET msg == toLowerCase(error.message)
    IN  \/ includes(msg, <<"quota">>)
        \/ includes(msg, <<"429">>)
        \/ includes(msg, <<"resource", "exhausted">>)
        \/ includes(msg, <<"limit">>)

----------------------------------------------------------------------------
(* Provider handlers                                                        *)

\* An Error thrown by handler `h` with the given message.
Err(h, message) == [ok |-> FALSE, handler |-> h, message |-> message]

\* A handler's normalised result: which handler produced it, which
\* provider's service served it, and (for speech) the encoding tag.
Ok(h, served, op) ==
    [ok |-> TRUE, handler |-> h, served |-> served, op |-> op,
     encoding |-> IF op # "generateSpeech" THEN "none"
                  ELSE IF served = "gemini" THEN "pcm" ELSE "mp3"]

\* Messages of the provider's own rejections (the SDK's / HTTP status text).
GeminiApiMessage(kind) ==
    CASE kind = "quota" ->
            <<"429", "You", "exceeded", "your", "current", "quota",
              "RESOURCE_EXHAUSTED">>
      [] kind = "invalid" ->
            <<"400", "API", "key", "not", "valid", "INVALID_ARGUMENT">>
      [] OTHER -> <<"500", "Internal", "error", "INTERNAL">>

statusText(kind) ==
    CASE kind = "quota" -> <<"Too", "Many", "Requests">>
      [] kind = "invalid" -> <<"Unauthorized">>
      [] OTHER -> <<"Internal", "Server", "Error">>

\* getKey of both handler classes: settings.keys[p] || process.env[...]
getKey(p, settings, e) ==
    IF settings.keys[p] # 0 THEN settings.keys[p] ELSE e[p]

\* GeminiHandler.generateSpeech / analyzeWord / getNews / getGeneralArticles
GeminiHandler(op, settings, e, s) ==
    IF getKey("gemini", settings, e) = 0
    THEN Err("gemini", <<"Gemini", "API", "Key", "missing">>)
    ELSE IF s["gemini"] = "ok" THEN Ok("gemini", "gemini", op)
    ELSE Err("gemini", GeminiApiMessage(s["gemini"]))

\* OpenAICompatibleHandler.fetchChat, as used by analyzeWord, getNews and
\* getGeneralArticles of the handler for provider p.
fetchChat(p, op, settings, e, s) ==
    IF getKey(p, settings, e) = 0
    THEN Err(p, <<p, "API", "Key", "missing">>)
    ELSE IF s[p] = "ok" THEN Ok(p, p, op)
    ELSE Err(p, <<p, "API", "Error:">> \o statusText(s[p]))

\* OpenAICompatibleHandler('openai').generateSpeech; `h` is the handler the
\* orchestrator called (deepseek pivots here).
OpenAISpeech(h, settings, e, s) ==
    IF getKey("openai", settings, e) = 0
    THEN Err(h, <<"OpenAI", "API", "Key", "missing", "for", "TTS">>)
    ELSE IF s["openai"] = "ok" THEN Ok(h, "openai", "generateSpeech")
    ELSE Err(h, <<"OpenAI", "TTS", "Failed">>)

\* Variant: every handler synthesises speech on its own provider.
OwnProviderSpeech(p, settings, e, s) ==
    IF getKey(p, settings, e) = 0
    THEN Err(p, <<p, "API", "Key", "missing", "for", "TTS">>)
    ELSE IF s[p] = "ok" THEN Ok(p, p, "generateSpeech")
    ELSE Err(p, <<p, "TTS", "Failed">>)

\* OpenAICompatibleHandler.generateSpeech
OpenAICompatibleSpeech(p, settings, e, s) ==
    IF p = "deepseek"
    THEN IF getKey("openai", settings, e) # 0
         THEN OpenAISpeech(p, settings, e, s)
         ELSE Err(p, <<"DeepSeek", "does", "not", "support", "TTS", "and",
                       "no", "OpenAI", "key", "provided", "for", "audio",
                       "fallback.">>)
    ELSE OpenAISpeech(p, settings, e, s)

\* operation(handler): the outcome of one operation on one handler.
HandlerCall(p, op, settings, e, s) ==
    IF p = "gemini" THEN GeminiHandler(op, settings, e, s)
    ELSE IF op = "generateSpeech" THEN OpenAICompatibleSpeech(p, settings, e, s)
    ELSE fetchChat(p, op, settings, e, s)

\* Does the call reach the network (true), or is it rejected before any
\* request is sent because a key is missing (false)?
SendsRequest(p, op, settings, e) ==
    IF p = "gemini" THEN getKey("gemini", settings, e) # 0
    ELSE IF op = "generateSpeech" THEN getKey("openai", settings, e) # 0
    ELSE getKey(p, settings, e) # 0

\* getHandler: the default branch returns gemini.
getHandler(provider) ==
    IF provider \in {"openai", "deepseek"} THEN provider ELSE "gemini"

----------------------------------------------------------------------------
(* executeWithFallback                                                      *)

\* The handler of the first attempt: getHandler('gemini').
PrimaryHandler(settings) == getHandler("gemini")

\* hasBackup = backupProvider && backupProvider !== 'gemini'
hasBackup(settings) == settings.backup # "none" /\ settings.backup # "gemini"

\* Variant: a backup credential is taken for granted.
backupKeyAlways(settings, e) == 1

\* settings.keys[backupProvider] || (backupProvider === 'openai' ? ... )
backupKey(settings, e) ==
    LET b == settings.backup
    IN  IF b \in Providers /\ settings.keys[b] # 0 THEN settings.keys[b]
        ELSE IF b = "openai" THEN e["openai"] ELSE e["deepseek"]

\* The call as a record: the stage it waits in, the handlers invoked so far,
\* and what it returned or raised.
ExecIdle == [stage |-> "idle", op |-> "none", attempts |-> <<>>, out |-> <<>>]

ExecStart(op, settings) ==
    [stage |-> "primary", op |-> op,
     attempts |-> <<PrimaryHandler(settings)>>, out |-> <<>>]

ExecFinish(call, outcome) ==
    [call EXCEPT !.stage = IF outcome.ok THEN "returned" ELSE "raised",
                 !.out = <<outcome>>]

\* Variant: a quota failure is retried on the handler that just failed.
ExecResumeRetrySame(call, settings, e, outcome) ==
    IF call.stage = "primary" /\ ~outcome.ok /\ isQuotaError(outcome)
    THEN [call EXCEPT !.stage = "backup",
                      !.attempts = Append(@, call.attempts[1])]
    ELSE ExecFinish(call, outcome)

\* Variant: a failed backup attempt is followed by a further attempt.
ExecResumeChain(call, settings, e, outcome) ==
    IF ~outcome.ok /\ Len(call.attempts) < 3
       /\ (call.stage = "backup"
            \/ (/\ isQuotaError(outcome) /\ hasBackup(settings)
                /\ backupKey(settings, e) # 0))
    THEN [call EXCEPT !.stage = "backup",
                      !.attempts = Append(@, getHandler(settings.backup))]
    ELSE ExecFinish(call, outcome)

\* The continuation of executeWithFallback after an awaited operation
\* settles with `outcome`.
ExecResume(call, settings, e, outcome) ==
    IF call.stage = "primary"
    THEN IF outcome.ok THEN ExecFinish(call, outcome)
         ELSE IF /\ isQuotaError(outcome)
                 /\ hasBackup(settings)
                 /\ backupKey(settings, e) # 0
              THEN [call EXCEPT !.stage = "backup",
                                !.attempts =
                                    Append(@, getHandler(settings.backup))]
              ELSE ExecFinish(call, outcome)
    ELSE ExecFinish(call, outcome)

\* The handler the call is waiting on.
Awaited(call) == call.attempts[Len(call.attempts)]

\* executeWithFallback run to its end while the services answer as `s`:
\* the call as it returns or raises.
ExecRun(op, settings, e, s) ==
    LET first == ExecResume(ExecStart(op, settings), settings, e,
                            HandlerCall(PrimaryHandler(settings), op,
                                        settings, e, s))
    IN  IF first.stage = "backup"
        THEN ExecResume(first, settings, e,
                        HandlerCall(Awaited(first), op, settings, e, s))
        ELSE first

----------------------------------------------------------------------------
(* Input domains                                                            *)

\* useState's initial apiSettings.
InitialSettings == [primary |-> "openai", backup |-> "deepseek", keys |-> NoKeys]

SettingsDomain ==
    [primary : Providers, backup : Providers,
     keys : [gemini : {0, 1}, openai : {0, 1}, deepseek : {0, 1}]]

\* process.env: at most one provider has a deployment-level default key.
EnvDomain ==
    {e \in [gemini : {0, 1}, openai : {0, 1}, deepseek : {0, 1}] :
        e.gemini + e.openai + e.deepseek <= 1}

SvcDomain ==
    {s \in [Providers -> Kinds] : s["deepseek"] \in {"ok", "error"}}

AllOk == [p \in Providers |-> "ok"]

\* What localStorage holds at start: nothing, or settings saved earlier
\* with an OpenAI key of the user's own.
StoredDomain ==
    {<<>>, <<[primary |-> "gemini", backup |-> "openai",
              keys |-> [gemini |-> 0, openai |-> 1, deepseek |-> 0]]>>}

\* The remote credential store: not configured, or one enabled Gemini row.
RemoteDomain ==
    {[configured |-> FALSE, keys |-> NoKeys]}
    \cup {[configured |-> TRUE,
           keys |-> [gemini |-> k, openai |-> 0, deepseek |-> 0]] :
          k \in 1..NumKeys}

----------------------------------------------------------------------------
(* The App: preload cycles (refreshContent), credential recovery and the    *)
(* settings save.  JavaScript runs each continuation to its next await; a   *)
(* promise that settles without any request (a missing key, a remote store  *)
(* that is not configured) is continued from the microtask queue, before    *)
(* any timer, response or click is handled.                                 *)

Languages == 1..NumLangs

\* What the model invents for a successful getNews: an article without
\* official audio, one with an audioUrl, or JSON without content.
NewsShapes == {"plain", "official", "empty"}

\* The deployments the App is started in: with or without a Gemini key in
\* process.env, with or without a remote store, and with or without saved
\* settings (a saved OpenAI key is combined with one deployment only).
Deployments ==
    {d \in [env : {e \in EnvDomain : e.openai = 0 /\ e.deepseek = 0},
            stored : StoredDomain, remote : RemoteDomain] :
        /\ d.env.gemini = 0 => ~d.remote.configured
        /\ d.stored # <<>> => d.env.gemini = 1 /\ ~d.remote.configured}

\* A provider's answers to a preload request (an invalid key and any other
\* failure take the same path and are one answer here).
PreloadKinds == {"ok", "quota", "error"}

\* langLoadState[lang]: `present` is false while the key is not in the map.
Unset == [present |-> FALSE, loading |-> FALSE, ready |-> FALSE]

Loading == [present |-> TRUE, loading |-> TRUE, ready |-> FALSE]

Failed == [present |-> TRUE, loading |-> FALSE, ready |-> FALSE]

\* Variant: a language is marked ready whatever was loaded.
LoadedReady(n) == [present |-> TRUE, loading |-> FALSE, ready |-> TRUE]

Loaded(n) == [present |-> TRUE, loading |-> FALSE, ready |-> n > 0]

NoEvent == [type |-> "none", cycle |-> 0, fresh |-> NoKeys, found |-> FALSE]

\* The wait of a cycle that has just called operation(handler).
WaitFor(p, op, settings, e) ==
    IF SendsRequest(p, op, settings, e) THEN "net" ELSE "micro"

\* A cycle entering executeWithFallback for `op`.
BeginCall(cyc, op, phase, e) ==
    [cyc EXCEPT !.phase = phase,
                !.call = ExecStart(op, cyc.settings),
                !.wait = WaitFor(PrimaryHandler(cyc.settings), op,
                                 cyc.settings, e)]

\* preloadLanguageContent(lang, settings) up to its first await.
BeginLanguage(cyc, lang, e) ==
    BeginCall([cyc EXCEPT !.li = lang, !.articles = 0, !.todo = 0],
              "getNews", "news", e)

\* preloadLanguageContent after an executeWithFallback call has returned
\* or raised: [kind |-> "await" | "return" | "throw", cyc |-> the cycle].
PreloadResume(cyc, call, shape, n, e) ==
    LET ok == call.stage = "returned"
        quota == ~ok /\ isQuotaError(call.out[1])
        pushed == [cyc EXCEPT !.articles = @ + 1]
        finish(c) == [kind |-> "return", cyc |-> [c EXCEPT !.call = ExecIdle]]
        general(c) ==
            [kind |-> "await",
             cyc |-> BeginCall(c, "getGeneralArticles", "general", e)]
        speech(c, phase) ==
            [kind |-> "await",
             cyc |-> BeginCall(c, "generateSpeech", phase, e)]
        rethrow == [kind |-> "throw", cyc |-> [cyc EXCEPT !.call = call]]
    IN  CASE cyc.phase = "news" ->
                IF ok THEN
                    CASE shape = "empty" -> general(cyc)
                      [] shape = "official" -> general(pushed)
                      [] OTHER -> speech(cyc, "newsTTS")
                ELSE IF quota THEN rethrow ELSE general(cyc)
          [] cyc.phase = "newsTTS" -> general(pushed)
          [] cyc.phase = "general" ->
                IF ok THEN
                    IF n = 0 THEN finish(cyc)
                    ELSE speech([cyc EXCEPT !.todo = n], "genTTS")
                ELSE IF quota THEN rethrow ELSE finish(cyc)
          [] OTHER ->
                IF cyc.todo > 1
                THEN speech([pushed EXCEPT !.todo = @ - 1], "genTTS")
                ELSE finish([pushed EXCEPT !.todo = 0])

\* A refreshContent invocation that has just been called with `settings`.
NewCycle(settings, origin, closureStage, e) ==
    BeginLanguage([settings |-> settings, origin |-> origin,
                   closureStage |-> closureStage, li |-> 1, phase |-> "news",
                   call |-> ExecIdle, articles |-> 0, todo |-> 0,
                   wait |-> "none"], 1, e)

\* A refreshContent invocation that has returned or been rejected: its
\* locals are gone, only how it ended and who started it is remembered.
Ended(cyc, how) ==
    [cyc EXCEPT !.settings = InitialSettings, !.closureStage = "LANG",
                !.li = 0, !.phase = how, !.call = ExecIdle, !.articles = 0,
                !.todo = 0, !.wait = "none"]

\* newSettings = {...settings, keys: {...settings.keys, ...freshConfig.keys}}
MergeKeys(settings, fresh) ==
    [settings EXCEPT !.keys =
        [p \in {"gemini", "openai", "deepseek"} |->
            IF fresh[p] # 0 THEN fresh[p] ELSE settings.keys[p]]]

\* Variant: any delivered key counts as new.
sameKeyNever(newGeminiKey, currentGeminiKey) == newGeminiKey # 0

\* newGeminiKey && newGeminiKey !== currentGeminiKey
keysDiffer(newGeminiKey, currentGeminiKey) ==
    newGeminiKey # 0 /\ newGeminiKey # currentGeminiKey

\* Microtasks run before every other task.
NoMicrotask == \A c \in DOMAIN cycles : cycles[c].wait # "micro"

\* A VocabularyItem: its id, its word, its review stage, when it is next due
\* (in days) and the encoding of its pronunciation audio ("none" when
\* audioBase64 is undefined).
NoItem ==
    [id |-> 0, word |-> "", reviewStage |-> 0, nextReviewAt |-> 0,
     audio |-> "none"]

\* No review result has been applied by the last step.
NoReview == [id |-> 0, success |-> FALSE]

\* No handleWordSelect call is in flight.  A call that has ended leaves
\* behind its word and how its two requests went (details "ok" | "failed");
\* answer is the `word` field of the analysis the provider returned.
NoLookup ==
    [active |-> FALSE, word |-> "", answer |-> "", vocab |-> <<>>,
     settings |-> InitialSettings, details |-> "pending", audio |-> "pending"]

\* The vocabulary part of the App once initApp is done, nothing looked up.
\* No sentence (null or undefined id).
NoId == -1

\* The volume slider's full scale: volume 1.
MaxVolume == 2

\* No loop range (null).
NoRange == [start |-> -1, end |-> -1]

\* No buffer source node (null).  A node holds what play() gave it: the
\* offset it started from, its loop settings, the context time of its
\* start, and whether it is still producing sound.
NoNode == [offset |-> -1, loop |-> FALSE, loopStart |-> 0, loopEnd |-> 0,
           startedAt |-> 0, live |-> FALSE]

\* What is remembered for stating the claims: the arguments of the play()
\* call that the last step made and the position at which playback began
\* (-1 when the last step made none), and the true position of the buffer
\* source node that the last pause stopped (-1 once a seek or a play
\* followed).
NoStart == [offset |-> -1, range |-> NoRange, at |-> -1, pausedAt |-> -1]

\* The playback state of ArticleView as mounted.
PlaybackAtRest ==
    /\ isPlaying = FALSE
    /\ loopRange = NoRange
    /\ pausedAtRef = 0
    /\ startTimeRef = 0
    /\ sourceRef = NoNode
    /\ clock = 0
    /\ audioEl = [currentTime |-> 0, paused |-> TRUE, ended |-> FALSE]
    /\ ended = <<>>
    /\ started = NoStart
    /\ loopingSentenceId = NoId

\* No audio backend has been constructed.
BackendAtRest ==
    /\ article = 0
    /\ audioContext = 0
    /\ effectContext = 0
    /\ openContexts = {}
    /\ sounding = {}
    /\ audioElRef = 0
    /\ elements = {}
    /\ handles = 0
    /\ gainNodeRef = 0
    /\ volume = MaxVolume
    /\ gain = MaxVolume
    /\ elVolume = MaxVolume
    /\ audioBuffer = 0
    /\ decoding = {}
    /\ rafRef = 0
    /\ frames = {}

\* The backend of the engine in use, as the audio effect constructs it for
\* article 1 in a reader just mounted; `ready` tells whether the audio has
\* been decoded.
BackendOf(external, ready) ==
    /\ article = 1
    /\ rafRef = 1
    /\ frames = {1}
    /\ effectContext = 0
    /\ sounding = {}
    /\ handles = 1
    /\ volume = MaxVolume
    /\ gain = MaxVolume
    /\ elVolume = MaxVolume
    /\ IF external
       THEN /\ audioContext = 0
            /\ openContexts = {}
            /\ audioElRef = 1
            /\ elements = {1}
            /\ gainNodeRef = 0
            /\ audioBuffer = 0
            /\ decoding = {}
       ELSE /\ audioContext = 1
            /\ openContexts = {1}
            /\ audioElRef = 0
            /\ elements = {}
            /\ gainNodeRef = 1
            /\ audioBuffer = IF ready THEN 1 ELSE 0
            /\ decoding = IF ready THEN {}
                          ELSE {[ctx |-> 1, article |-> 1]}

\* ArticleView as mounted, before its audio is initialised.
ReaderAtRest ==
    /\ content = <<>>
    /\ segmenterAvailable = TRUE
    /\ duration = 0
    /\ allMapped = <<>>
    /\ sentences = <<>>
    /\ currentTime = 0
    /\ isExternalAudio = FALSE
    /\ PlaybackAtRest
    /\ BackendAtRest

LookupAtRest ==
    /\ vocabulary = <<>>
    /\ storedVocab = <<>>
    /\ isLoading = FALSE
    /\ selectedWord = NoItem
    /\ alerts = 0
    /\ lookup = NoLookup
    /\ nextId = 1
    /\ now = 0
    /\ reviewed = NoReview

----------------------------------------------------------------------------
(* Actions of the App                                                       *)

\* What fetchSupabaseConfig can resolve to: null (found = FALSE) when the
\* client is not configured, the query fails or no row matches, else the
\* keys of the enabled rows.
NullConfig == [found |-> FALSE, keys |-> NoKeys]

fetchSupabaseConfig(store) ==
    IF store.configured /\ store.keys # NoKeys
    THEN {NullConfig, [found |-> TRUE, keys |-> store.keys]}
    ELSE {NullConfig}

\* Variant: the prologue clears the content and leaves the load states.
KeepLoadState == langLoadState

\* refreshContent's prologue: every language loading, no preloaded content.
ResetLoadState == [l \in Languages |-> Loading]

NoContent == [l \in Languages |-> -1]

\* handleSettingsSave(newSettings), called with the closure's `stage`; the
\* write to localStorage throws when storageOk is false.  `base` is the
\* caller's view of the cycles if the call returns, `thrown` if it throws.
handleSettingsSave(newSettings, closureStage, origin, storageOk, base, thrown) ==
    /\ apiSettings' = newSettings
    /\ IF storageOk
       THEN /\ storedSettings' = <<newSettings>>
            /\ Len(cycles) < MaxCycles
            /\ cycles' = Append(base, NewCycle(newSettings, origin,
                                               closureStage, env))
            /\ langLoadState' = ResetLoadState
            /\ preloadedContent' = NoContent
            /\ IF closureStage # "LANG"
               THEN /\ stage' = "LANG"
                    /\ selectedLanguage' = 0
                    /\ currentArticle' = 0
               ELSE UNCHANGED <<stage, selectedLanguage, currentArticle>>
       ELSE /\ cycles' = thrown
            /\ UNCHANGED <<storedSettings, langLoadState, preloadedContent,
                           stage, selectedLanguage, currentArticle>>

PInit ==
    /\ \E d \in Deployments :
        /\ env = d.env
        /\ storedSettings = d.stored
        /\ remote = d.remote
    /\ apiSettings = InitialSettings
    /\ langLoadState = [l \in Languages |-> Unset]
    /\ preloadedContent = NoContent
    /\ stage = "LANG"
    /\ selectedLanguage = 0
    /\ currentArticle = 0
    /\ cycles = <<>>
    /\ saves = 0
    /\ restarts = 0
    /\ delivered = {}
    /\ ev = NoEvent
    /\ fetchFailed = {}
    /\ LookupAtRest
    /\ ReaderAtRest
    /\ fsettings = InitialSettings
    /\ svc = AllOk
    /\ fcall = ExecIdle

Or(a, b) == IF a # 0 THEN a ELSE b

\* initApp: remote config, then localStorage, then process.env; the first
\* preload cycle starts under the constructed settings.
initApp ==
    /\ cycles = <<>>
    /\ \E remoteConfig \in fetchSupabaseConfig(remote) :
        LET hasLocal == storedSettings # <<>>
            localKeys == IF hasLocal THEN storedSettings[1].keys ELSE NoKeys
            finalSettings ==
                [primary |-> IF hasLocal THEN storedSettings[1].primary
                             ELSE "gemini",
                 backup |-> IF hasLocal THEN storedSettings[1].backup
                            ELSE "openai",
                 keys |->
                    [gemini |-> Or(remoteConfig.keys.gemini,
                                   Or(localKeys.gemini, env.gemini)),
                     openai |-> Or(localKeys.openai,
                                   Or(remoteConfig.keys.openai, env.openai)),
                     deepseek |-> Or(localKeys.deepseek,
                                     Or(remoteConfig.keys.deepseek,
                                        env.deepseek))]]
        IN  /\ apiSettings' = finalSettings
            /\ cycles' = <<NewCycle(finalSettings, "init", "LANG", env)>>
            /\ langLoadState' = ResetLoadState
            /\ preloadedContent' = NoContent
            /\ ev' = NoEvent
    /\ UNCHANGED <<env, storedSettings, stage, selectedLanguage,
                   currentArticle, remote, saves, restarts,
                   delivered, notPreload>>

\* refreshContent and preloadLanguageContent of cycle c, continued after the
\* operation it awaits has settled with outcome o.
Continue(c, o, shape, n) ==
    \E cyc \in {cycles[c]} :
    \E call \in {ExecResume(cyc.call, cyc.settings, env, o)} :
    LET r == PreloadResume(cyc, call, shape, n, env)
        step(type) == [NoEvent EXCEPT !.type = type, !.cycle = c]
    IN  IF call.stage = "backup"
        THEN /\ cycles' = [cycles EXCEPT ![c] =
                    [cyc EXCEPT !.call = call,
                                !.wait = WaitFor(Awaited(call), call.op,
                                                 cyc.settings, env)]]
             /\ ev' = NoEvent
             /\ UNCHANGED <<langLoadState, preloadedContent>>
        ELSE IF r.kind = "await"
        THEN /\ cycles' = [cycles EXCEPT ![c] = r.cyc]
             /\ ev' = NoEvent
             /\ UNCHANGED <<langLoadState, preloadedContent>>
        ELSE IF r.kind = "return"
        THEN /\ preloadedContent' =
                    [preloadedContent EXCEPT ![cyc.li] = r.cyc.articles]
             /\ langLoadState' =
                    [langLoadState EXCEPT ![cyc.li] = Loaded(r.cyc.articles)]
             /\ cycles' = [cycles EXCEPT ![c] =
                    [r.cyc EXCEPT !.phase = "delay", !.wait = "timer",
                                  !.articles = 0]]
             /\ ev' = step("loaded")
        ELSE IF isQuotaError(call.out[1])
        THEN /\ cycles' = [cycles EXCEPT ![c] =
                    [cyc EXCEPT !.phase = "config", !.call = ExecIdle,
                                !.wait = IF remote.configured THEN "config"
                                         ELSE "micro"]]
             /\ ev' = NoEvent
             /\ UNCHANGED <<langLoadState, preloadedContent>>
        ELSE /\ langLoadState' = [langLoadState EXCEPT ![cyc.li] = Failed]
             /\ cycles' = [cycles EXCEPT ![c] =
                    [cyc EXCEPT !.phase = "delay", !.call = ExecIdle,
                                !.wait = "timer"]]
             /\ ev' = step("failed")
             /\ UNCHANGED preloadedContent

InCall(c) == cycles[c].phase \in {"news", "newsTTS", "general", "genTTS"}

\* What the provider's answer `kind` makes of the request cycle c awaits.
Answer(c, kind) ==
    HandlerCall(Awaited(cycles[c].call), cycles[c].call.op,
                cycles[c].settings, env, [p \in Providers |-> kind])

\* What a handler that throws before sending anything makes of it.
Rejection(c) ==
    HandlerCall(Awaited(cycles[c].call), cycles[c].call.op,
                cycles[c].settings, env, AllOk)

\* A provider answers the request cycle c is waiting on with `kind`; a
\* successful getNews has the given shape, a successful getGeneralArticles
\* n articles.
RequestSettlesWith(c, kind, shape, n) ==
    /\ NoMicrotask
    /\ InCall(c) /\ cycles[c].wait = "net"
    /\ shape \in IF cycles[c].phase = "news" THEN NewsShapes ELSE {"plain"}
    /\ n \in IF cycles[c].phase = "general" THEN 0..MaxGeneral ELSE {0}
    /\ Continue(c, Answer(c, kind), shape, n)
    /\ UNCHANGED <<env, apiSettings, storedSettings, stage, selectedLanguage,
                   currentArticle, remote, saves, restarts,
                   delivered, notPreload>>

RequestSettles(c) ==
    \E kind \in PreloadKinds, shape \in NewsShapes, n \in 0..MaxGeneral :
        RequestSettlesWith(c, kind, shape, n)

\* A handler threw before sending anything; the rejection is continued.
RejectionContinues(c) ==
    /\ InCall(c) /\ cycles[c].wait = "micro"
    /\ Continue(c, Rejection(c), "plain", 0)
    /\ UNCHANGED <<env, apiSettings, storedSettings, stage, selectedLanguage,
                   currentArticle, remote, saves, restarts,
                   delivered, notPreload>>

\* The recovery branch of refreshContent's catch, after fetchSupabaseConfig
\* has resolved to freshConfig.
ConfigSettles(c) ==
    /\ cycles[c].phase = "config"
    /\ cycles[c].wait = "micro" \/ NoMicrotask
    /\ \E freshConfig \in IF cycles[c].wait = "micro" THEN {NullConfig}
                          ELSE fetchSupabaseConfig(remote),
          storageOk \in BOOLEAN :
        LET cyc == cycles[c]
            newGeminiKey == freshConfig.keys.gemini
            currentGeminiKey == cyc.settings.keys.gemini
            seen == [type |-> "config", cycle |-> c,
                     fresh |-> freshConfig.keys, found |-> freshConfig.found]
        IN  /\ delivered' = IF newGeminiKey # 0
                            THEN delivered \cup {newGeminiKey} ELSE delivered
            /\ IF freshConfig.found /\ keysDiffer(newGeminiKey, currentGeminiKey)
               THEN /\ handleSettingsSave(
                          MergeKeys(cyc.settings, freshConfig.keys),
                          cyc.closureStage, "recovery", storageOk,
                          [cycles EXCEPT ![c] = Ended(cyc, "done")],
                          [cycles EXCEPT ![c] = Ended(cyc, "crashed")])
                    /\ restarts' = IF storageOk THEN restarts + 1 ELSE restarts
                    /\ ev' = [seen EXCEPT !.type =
                                IF storageOk THEN "restart" ELSE "crash"]
               ELSE /\ storageOk
                    /\ langLoadState' =
                            [langLoadState EXCEPT ![cyc.li] = Failed]
                    /\ cycles' = [cycles EXCEPT ![c] =
                            [cyc EXCEPT !.phase = "delay", !.wait = "timer"]]
                    /\ ev' = [seen EXCEPT !.type = "abort"]
                    /\ UNCHANGED <<apiSettings, storedSettings,
                                   preloadedContent, stage, selectedLanguage,
                                   currentArticle, restarts>>
    /\ UNCHANGED <<env, remote, saves, notPreload>>

\* The 1500 ms delay after a language elapses: next language, or the end.
DelayElapses(c) ==
    /\ NoMicrotask
    /\ cycles[c].phase = "delay"
    /\ cycles' = [cycles EXCEPT ![c] =
            IF cycles[c].li < NumLangs
            THEN BeginLanguage(cycles[c], cycles[c].li + 1, env)
            ELSE Ended(cycles[c], "done")]
    /\ ev' = NoEvent
    /\ UNCHANGED <<env, apiSettings, storedSettings, langLoadState,
                   preloadedContent, stage, selectedLanguage, currentArticle,
                   remote, saves, restarts, delivered, notPreload>>

\* What the settings modal can hand to onSave: primary 'gemini', and the
\* shown settings unchanged or with the Gemini key cleared or replaced.
ModalSaves(shown) ==
    LET base == [shown EXCEPT !.primary = "gemini"]
    IN  {base} \cup {[base EXCEPT !.keys.gemini = k] : k \in {0, NumKeys}}

\* The user saves the settings modal (SettingsModal.handleSave -> onSave).
UserSavesSettings ==
    /\ NoMicrotask
    /\ cycles # <<>>
    /\ saves < MaxSaves
    /\ \E newSettings \in ModalSaves(apiSettings), storageOk \in BOOLEAN :
        handleSettingsSave(newSettings, stage, "save", storageOk,
                           cycles, cycles)
    /\ saves' = saves + 1
    /\ ev' = NoEvent
    /\ UNCHANGED <<env, remote, restarts, delivered, notPreload>>

PNext ==
    \/ initApp /\ UNCHANGED fetchFailed
    \/ \E c \in DOMAIN cycles : RequestSettles(c) /\ UNCHANGED fetchFailed
    \/ \E c \in DOMAIN cycles : RejectionContinues(c) /\ UNCHANGED fetchFailed
    \/ \E c \in DOMAIN cycles : ConfigSettles(c) /\ UNCHANGED fetchFailed
    \/ \E c \in DOMAIN cycles : DelayElapses(c) /\ UNCHANGED fetchFailed
    \/ UserSavesSettings /\ UNCHANGED fetchFailed

SpecPreload == PInit /\ [][PNext]_vars

\* The news or general-article fetch that raises when the operation cycle c
\* awaits settles with outcome o (none if it returns, falls back, or is a
\* speech synthesis).
Missed(c, o) ==
    LET call == ExecResume(cycles[c].call, cycles[c].settings, env, o)
    IN  IF call.stage = "raised" /\ cycles[c].phase \in {"news", "general"}
        THEN {call.op} ELSE {}

\* The App while the user leaves the settings alone: cycles follow one
\* another only through recovery restarts, and the observer keeps the
\* fetches that have raised for the language in progress.
CNext ==
    \/ initApp /\ fetchFailed' = {}
    \/ \E c \in DOMAIN cycles, kind \in PreloadKinds,
           shape \in NewsShapes, n \in 0..MaxGeneral :
        /\ RequestSettlesWith(c, kind, shape, n)
        /\ fetchFailed' = fetchFailed \cup Missed(c, Answer(c, kind))
    \/ \E c \in DOMAIN cycles :
        /\ RejectionContinues(c)
        /\ fetchFailed' = fetchFailed \cup Missed(c, Rejection(c))
    \/ \E c \in DOMAIN cycles :
        /\ ConfigSettles(c)
        /\ fetchFailed' = IF ev'.type = "restart" THEN {} ELSE fetchFailed
    \/ \E c \in DOMAIN cycles : DelayElapses(c) /\ fetchFailed' = {}

SpecCycle == PInit /\ [][CNext]_vars

\* The same under the assumption that every request, remote-config fetch
\* and timer a cycle awaits eventually settles.  At most one cycle is
\* awaiting at a time here, so fairness of the steps as a whole is fairness
\* of the one continuation that is pending.
SpecCycleFair == SpecCycle /\ WF_vars(CNext)

----------------------------------------------------------------------------
(* One executeWithFallback call at a time, over every operation, every      *)
(* settings value the ApiSettings type admits and every way the three       *)
(* services can answer.                                                     *)

FInit ==
    /\ env \in EnvDomain
    /\ fsettings = InitialSettings
    /\ svc = AllOk
    /\ fcall = ExecIdle
    /\ apiSettings = InitialSettings
    /\ storedSettings = <<>>
    /\ langLoadState = [l \in Languages |-> Unset]
    /\ preloadedContent = NoContent
    /\ stage = "LANG"
    /\ selectedLanguage = 0
    /\ currentArticle = 0
    /\ cycles = <<>>
    /\ remote = [configured |-> FALSE, keys |-> NoKeys]
    /\ saves = 0
    /\ restarts = 0
    /\ delivered = {}
    /\ ev = NoEvent
    /\ fetchFailed = {}
    /\ LookupAtRest
    /\ ReaderAtRest

\* A public method enters executeWithFallback and awaits the first attempt.
Enter(op) ==
    /\ fcall.stage = "idle"
    /\ \E settings \in SettingsDomain, s \in SvcDomain :
        /\ fsettings' = settings
        /\ svc' = s
        /\ fcall' = ExecStart(op, settings)
    /\ UNCHANGED <<env, notFallback>>

generateSpeech == Enter("generateSpeech")

analyzeWord == Enter("analyzeWord")

getNews == Enter("getNews")

getGeneralArticles == Enter("getGeneralArticles")

\* The awaited operation(handler) settles and executeWithFallback continues.
OperationSettles ==
    /\ fcall.stage \in {"primary", "backup"}
    /\ fcall' = ExecResume(fcall, fsettings, env,
                           HandlerCall(Awaited(fcall), fcall.op, fsettings, env, svc))
    /\ UNCHANGED <<env, fsettings, svc, notFallback>>

\* The caller consumes the returned value or the raised failure.
CallCompletes ==
    /\ fcall.stage \in {"returned", "raised"}
    /\ fcall' = ExecIdle
    /\ fsettings' = InitialSettings
    /\ svc' = AllOk
    /\ UNCHANGED <<env, notFallback>>

FNext ==
    \/ generateSpeech
    \/ analyzeWord
    \/ getNews
    \/ getGeneralArticles
    \/ OperationSettles
    \/ CallCompletes

SpecFallback == FInit /\ [][FNext]_vars

----------------------------------------------------------------------------
(* Word lookup: handleWordSelect.  While a lookup is in flight the loading  *)
(* overlay covers the page, so no other handler is started.                 *)

\* Ebbinghaus intervals, in days (the code keeps them in milliseconds).
INTERVALS == <<1, 3, 7, 15, 30>>

\* Words the reader can click; two of them differ only in case.
Words == {"Hallo", "hallo", "Welt"}

\* The settings a lookup can run under: what the settings modal saves.
LookupSettings == {st \in SettingsDomain : st.primary = "gemini" /\ st.backup # "gemini"}

LInit ==
    /\ env \in EnvDomain
    /\ apiSettings \in LookupSettings
    /\ LookupAtRest
    /\ ReaderAtRest
    /\ fsettings = InitialSettings
    /\ svc = AllOk
    /\ fcall = ExecIdle
    /\ storedSettings = <<>>
    /\ langLoadState = [l \in Languages |-> Unset]
    /\ preloadedContent = NoContent
    /\ stage = "READ"
    /\ selectedLanguage = 1
    /\ currentArticle = 1
    /\ cycles = <<>>
    /\ remote = [configured |-> FALSE, keys |-> NoKeys]
    /\ saves = 0
    /\ restarts = 0
    /\ delivered = {}
    /\ ev = NoEvent
    /\ fetchFailed = {}

\* The `word` of an analysis whose JSON carries no such field: the Gemini
\* response schema does not list `word` among its required properties.
Undefined == "undefined"

\* The `word` fields an analysis can carry: JSON.parse of what the provider
\* answered, which the code does not compare with the word asked for.
AnswerWords == Words \cup {Undefined}

\* state.vocabulary.find(v => v.word.toLowerCase() === word.toLowerCase())
existing(vocab, word) ==
    {i \in 1..Len(vocab) : /\ vocab[i].word # Undefined
                           /\ LowerWord(vocab[i].word) = LowerWord(word)}

\* The find callback reads toLowerCase of an undefined word before it
\* reaches a match: a TypeError that ends handleWordSelect.
findThrows(vocab, word) ==
    \E i \in 1..Len(vocab) :
        /\ vocab[i].word = Undefined
        /\ \A j \in existing(vocab, word) : i < j

First(S) == CHOOSE i \in S : \A j \in S : i <= j

\* handleWordSelect(word, context) up to its await.
handleWordSelect(word) ==
    /\ ~isLoading
    /\ stage = "READ"
    /\ IF findThrows(vocabulary, word)
       THEN UNCHANGED <<selectedWord, isLoading, lookup>>
       ELSE IF existing(vocabulary, word) # {}
       THEN /\ selectedWord' = vocabulary[First(existing(vocabulary, word))]
            /\ UNCHANGED <<isLoading, lookup>>
       ELSE /\ Len(vocabulary) < MaxVocab /\ alerts < MaxAlerts
            /\ isLoading' = TRUE
            /\ lookup' = [active |-> TRUE, word |-> word, answer |-> "",
                          vocab |-> vocabulary, settings |-> apiSettings,
                          details |-> "pending", audio |-> "pending"]
            /\ UNCHANGED selectedWord
    /\ reviewed' = NoReview
    /\ UNCHANGED <<env, apiSettings, vocabulary, storedVocab, alerts, nextId,
                   now, notLookup>>

\* The handleWordSelect call that has ended.
Settled(details, audio) ==
    [NoLookup EXCEPT !.word = lookup.word, !.answer = lookup.answer,
                     !.details = details, !.audio = audio]

\* Variant: the catch block shows nothing.
LookupFailsSilently ==
    /\ lookup' = Settled("failed", lookup.audio)
    /\ isLoading' = FALSE
    /\ UNCHANGED <<vocabulary, storedVocab, selectedWord, nextId, alerts>>

\* The catch and finally blocks of handleWordSelect.
LookupFails ==
    /\ alerts' = alerts + 1
    /\ isLoading' = FALSE
    /\ lookup' = Settled("failed", lookup.audio)
    /\ UNCHANGED <<vocabulary, storedVocab, selectedWord, nextId>>

\* Variant: a lookup without pronunciation audio is treated as failed.
LookupNeedsAudio(answer, audio, storageOk) ==
    /\ lookup' = [Settled("ok", audio) EXCEPT !.answer = answer]
    /\ isLoading' = FALSE
    /\ IF audio = "none"
       THEN /\ alerts' = alerts + 1
            /\ UNCHANGED <<vocabulary, storedVocab, selectedWord, nextId>>
       ELSE LET newItem == [id |-> nextId, word |-> answer,
                            reviewStage |-> 0,
                            nextReviewAt |-> now + INTERVALS[1],
                            audio |-> audio]
            IN  /\ vocabulary' = <<newItem>> \o lookup.vocab
                /\ storedVocab' = IF storageOk THEN vocabulary'
                                  ELSE storedVocab
                /\ selectedWord' = newItem
                /\ nextId' = nextId + 1
                /\ UNCHANGED alerts

\* The rest of handleWordSelect once Promise.all has resolved with the
\* analysis and the speech result `audio` ("none" for undefined); the write
\* to localStorage throws when storageOk is false.  newItem spreads the
\* analysis, so its word is the answer's, not the word that was clicked.
LookupSucceeds(answer, audio, storageOk) ==
    LET newItem == [id |-> nextId, word |-> answer, reviewStage |-> 0,
                    nextReviewAt |-> now + INTERVALS[1], audio |-> audio]
        updatedVocab == <<newItem>> \o lookup.vocab
    IN  /\ storedVocab' = IF storageOk THEN updatedVocab ELSE storedVocab
        /\ vocabulary' = updatedVocab
        /\ selectedWord' = newItem
        /\ nextId' = nextId + 1
        /\ isLoading' = FALSE
        /\ lookup' = [Settled("ok", audio) EXCEPT !.answer = answer]
        /\ UNCHANGED alerts

\* analyzeWord(...) of the lookup in flight settles, the providers answering
\* in one of the ways of `answers` with one of `words` as the word field.
AnalyzeSettlesUnder(answers, words) ==
    /\ lookup.active /\ lookup.details = "pending"
    /\ \E s \in answers, answer \in words, storageOk \in BOOLEAN :
        LET call == ExecRun("analyzeWord", lookup.settings, env, s)
        IN  IF call.stage = "raised" THEN storageOk /\ LookupFails
            ELSE IF lookup.audio # "pending"
            THEN LookupSucceeds(answer, lookup.audio, storageOk)
            ELSE /\ storageOk
                 /\ lookup' = [lookup EXCEPT !.details = "ok",
                                             !.answer = answer]
                 /\ UNCHANGED <<vocabulary, storedVocab, isLoading,
                                selectedWord, alerts, nextId>>
    /\ reviewed' = NoReview
    /\ UNCHANGED <<env, apiSettings, now, notLookup>>

\* generateSpeech(...).catch(() => undefined) of the lookup in flight
\* settles, the providers answering in one of the ways of `answers`.
SpeechSettlesUnder(answers) ==
    /\ lookup.active /\ lookup.audio = "pending"
    /\ \E s \in answers, storageOk \in BOOLEAN :
        LET call == ExecRun("generateSpeech", lookup.settings, env, s)
            audio == IF call.stage = "returned" THEN call.out[1].encoding
                     ELSE "none"
        IN  IF lookup.details = "ok"
            THEN LookupSucceeds(lookup.answer, audio, storageOk)
            ELSE /\ storageOk
                 /\ lookup' = [lookup EXCEPT !.audio = audio]
                 /\ UNCHANGED <<vocabulary, storedVocab, isLoading,
                                selectedWord, alerts, nextId>>
    /\ reviewed' = NoReview
    /\ UNCHANGED <<env, apiSettings, now, notLookup>>

AnalyzeSettles == AnalyzeSettlesUnder(SvcDomain, AnswerWords)

SpeechSettles == SpeechSettlesUnder(SvcDomain)

LNext ==
    \/ \E word \in Words : handleWordSelect(word)
    \/ AnalyzeSettles
    \/ SpeechSettles

SpecLookup == LInit /\ [][LNext]_vars

----------------------------------------------------------------------------
(* Review scheduling: updateVocabularyItem, handleReviewWord and            *)
(* handleFlashcardResult.  The loading overlay of a lookup in flight stops  *)
(* pointer input to the page below it, but the sidebar's buttons stay       *)
(* reachable from the keyboard and the flashcard and word dialogs are drawn *)
(* above the overlay, so a review can be applied while a lookup is          *)
(* suspended on its provider calls.                                         *)

\* Bound on the review stage an item is taken to.
MaxStage == 5

\* Bound on Date.now(), in days.
MaxNow == 1

\* Variant: the interval of the stage the item is leaving.
intervalOfCurrentStage(nextStage) ==
    IF nextStage - 1 < Len(INTERVALS) - 1 THEN nextStage - 1
    ELSE Len(INTERVALS) - 1

\* Math.min(nextStage, INTERVALS.length - 1)
intervalIndex(nextStage) ==
    IF nextStage < Len(INTERVALS) - 1 THEN nextStage ELSE Len(INTERVALS) - 1

\* The updater of handleFlashcardResult (success) and of handleReviewWord.
advance(item) ==
    [item EXCEPT !.reviewStage = item.reviewStage + 1,
                 !.nextReviewAt =
                     now + INTERVALS[intervalIndex(item.reviewStage + 1) + 1]]

\* The updater of handleFlashcardResult on failure.
reset(item) ==
    [item EXCEPT !.reviewStage = 0, !.nextReviewAt = now + INTERVALS[1]]

\* state.vocabulary.map(item => item.id === id ? updater(item) : item)
mapItem(vocab, id, success) ==
    [i \in 1..Len(vocab) |->
        IF vocab[i].id = id
        THEN IF success THEN advance(vocab[i]) ELSE reset(vocab[i])
        ELSE vocab[i]]

\* updateVocabularyItem(id, updater): the write to localStorage throws when
\* storageOk is false and the throw is caught.
updateVocabularyItem(id, success, storageOk) ==
    LET updatedVocab == mapItem(vocabulary, id, success)
    IN  /\ storedVocab' = IF storageOk THEN updatedVocab ELSE storedVocab
        /\ vocabulary' = updatedVocab
        /\ reviewed' = [id |-> id, success |-> success]

\* Ids of the items of a vocabulary.
Ids(vocab) == {vocab[i].id : i \in 1..Len(vocab)}

\* The items a review can take further.
Reviewable == {i \in 1..Len(vocabulary) : vocabulary[i].reviewStage < MaxStage}

\* handleReviewWord(id), from the word dialog showing selectedWord.
handleReviewWord(storageOk) ==
    /\ selectedWord # NoItem
    /\ \E i \in Reviewable :
        /\ vocabulary[i].id = selectedWord.id
        /\ updateVocabularyItem(selectedWord.id, TRUE, storageOk)
        /\ selectedWord' = vocabulary'[i]
    /\ UNCHANGED <<env, apiSettings, isLoading, alerts, lookup, nextId, now,
                   notLookup>>

\* handleFlashcardResult(id, success), from a flashcard session.
handleFlashcardResult(id, success, storageOk) ==
    /\ \E i \in Reviewable : vocabulary[i].id = id
    /\ updateVocabularyItem(id, success, storageOk)
    /\ UNCHANGED <<env, apiSettings, isLoading, selectedWord, alerts, lookup,
                   nextId, now, notLookup>>

\* A day goes by.
DayPasses ==
    /\ now < MaxNow
    /\ now' = now + 1
    /\ reviewed' = NoReview
    /\ UNCHANGED <<env, apiSettings, vocabulary, storedVocab, isLoading,
                   selectedWord, alerts, lookup, nextId, notLookup>>

\* One deployment: a Gemini key in the settings, none built in.
RInit ==
    /\ LInit
    /\ env = NoKeys
    /\ apiSettings.backup = "openai"
    /\ \A p \in Providers : apiSettings.keys[p] = IF p = "gemini" THEN 1 ELSE 0

\* How the storage writes of the reviews go: they succeed (a write that
\* fails leaves an older list in storage, as the lookups' writes show).
ReviewWrites == {TRUE}

\* The answers of the providers that matter with a Gemini key alone.
ReviewAnswers ==
    {s \in SvcDomain : s["openai"] = "ok" /\ s["deepseek"] = "ok"}

\* The words looked up between reviews.
ReviewWords == {"Hallo", "Welt"}

RNext ==
    \/ \E word \in ReviewWords : handleWordSelect(word)
    \/ AnalyzeSettlesUnder(ReviewAnswers, ReviewWords)
    \/ SpeechSettlesUnder(ReviewAnswers)
    \/ \E storageOk \in ReviewWrites : handleReviewWord(storageOk)
    \/ \E id \in Ids(vocabulary), success \in BOOLEAN,
          storageOk \in ReviewWrites :
           handleFlashcardResult(id, success, storageOk)
    \/ DayPasses

SpecReview == RInit /\ [][RNext]_vars

----------------------------------------------------------------------------
(* ArticleView: sentence segmentation and time mapping.                     *)
(* A text is a sequence of one-character strings.  Times held in state are  *)
(* ticks of a tenth of a second.  Span times, which the code computes in    *)
(* floating point as (weight / totalWeight) * duration, are fixed-point     *)
(* numbers in 1/Resolution of a tick: the quotient is rounded to Resolution *)
(* steps and then multiplied, as the code divides first and multiplies      *)
(* second.                                                                  *)

MaxText == 4
MaxDuration == 3
Resolution == 1000
ScenarioDuration == 100

PeriodWeight == 20
CommaWeight == 8
QuoteWeight == 2
NewlineWeight == 25

\* The characters that occur in the texts explored.
Alphabet == {"a", "?", " ", "\""}

Scenario ==
    <<"H", "e", "l", "l", "o", " ", "w", "o", "r", "l", "d", ".", " ",
      "H", "o", "w", " ", "a", "r", "e", " ", "y", "o", "u", "?">>

Texts ==
    UNION {[1..n -> Alphabet] : n \in 1..MaxText} \cup {Scenario}

\* The character classes of the regular expressions (the full-width forms
\* of the source behave as their ASCII counterparts and are left out).
Terminators == {".", "!", "?"}
Commas == {",", ";"}
Quotes == {"\"", "'"}
Spaces == {" "}
Newlines == {"\n"}
Lower == {"a", "d", "e", "l", "o", "r", "u", "w", "y"}
Upper == {"H"}

Max(S) == CHOOSE x \in S : \A y \in S : y <= x
Min(S) == CHOOSE x \in S : \A y \in S : x <= y

\* The end of the longest run of characters of class C that starts at from
\* (from - 1 when text[from] is not in C).
RunEnd(text, from, C) ==
    Max({from - 1} \cup {j \in from..Len(text) :
                            \A k \in from..j : text[k] \in C})

\* text.match(/[^.!?]+[.!?]+["']?|[^.!?]+$/g) from position pos on: a
\* position where neither alternative matches is skipped.
RECURSIVE RegexMatches(_, _)
RegexMatches(text, pos) ==
    IF pos > Len(text) THEN <<>>
    ELSE IF text[pos] \in Terminators THEN RegexMatches(text, pos + 1)
    ELSE LET r == RunEnd(text, pos, (Alphabet \cup Lower \cup Upper
                                     \cup Commas \cup Quotes \cup Spaces
                                     \cup Newlines) \ Terminators)
         IN  IF r = Len(text) THEN <<SubSeq(text, pos, r)>>
             ELSE LET t == RunEnd(text, r + 1, Terminators)
                      e == IF t < Len(text) /\ text[t + 1] \in Quotes
                           THEN t + 1 ELSE t
                  IN  <<SubSeq(text, pos, e)>> \o RegexMatches(text, e + 1)

\* raw.map(s => ({segment: s, index: currentIndex})), currentIndex
\* accumulating the lengths.
RECURSIVE Indexed(_, _)
Indexed(raw, currentIndex) ==
    IF raw = <<>> THEN <<>>
    ELSE <<[segment |-> Head(raw), index |-> currentIndex]>>
         \o Indexed(Tail(raw), currentIndex + Len(Head(raw)))

\* The catch branch: the regular-expression split.
RegexSegments(text) ==
    LET m == RegexMatches(text, 1)
    IN  Indexed(IF m = <<>> THEN <<text>> ELSE m, 0)

\* Variant: a sentence ends at its terminator and closing quotes; the
\* spaces after it open the next one.
IntlBreakBeforeSpaces(text, i) ==
    /\ i < Len(text)
    /\ \E j \in 1..i :
        /\ text[j] \in Terminators
        /\ \A k \in (j + 1)..i : text[k] \in Quotes
    /\ text[i + 1] \notin Terminators \cup Quotes

\* Intl.Segmenter(..., {granularity: 'sentence'}): whether a sentence ends
\* after text[i].  The default sentence-break rules: a paragraph separator
\* ends a sentence; so does a terminator with the closing quotes and then
\* the spaces that follow it, unless another terminator or a comma comes
\* next, or the terminator is a full stop and the next letter is lower case.
IntlBreakAfter(text, i) ==
    /\ i < Len(text)
    /\ \/ text[i] \in Newlines
       \/ \E j \in 1..i :
            /\ text[j] \in Terminators
            /\ \E c \in j..i :
                /\ \A k \in (j + 1)..c : text[k] \in Quotes
                /\ \A k \in (c + 1)..i : text[k] \in Spaces
                /\ c = i => text[i + 1] \notin Quotes
            /\ text[i + 1] \notin Spaces \cup Terminators \cup Commas
            /\ text[j] = "." =>
                 LET letters == {m \in (i + 1)..Len(text) :
                                    text[m] \in Lower \cup Upper
                                        \cup Terminators \cup Newlines}
                 IN  letters = {} \/ text[Min(letters)] \notin Lower

\* Array.from(segmenter.segment(text)) from offset `from` (0-based) on.
RECURSIVE IntlFrom(_, _)
IntlFrom(text, from) ==
    IF from >= Len(text) THEN <<>>
    ELSE LET e == Min({i \in (from + 1)..Len(text) :
                          i = Len(text) \/ IntlBreakAfter(text, i)})
         IN  <<[segment |-> SubSeq(text, from + 1, e), index |-> from]>>
             \o IntlFrom(text, e)

IntlSegments(text) == IntlFrom(text, 0)

\* rawSegments of the mapping effect.
rawSegments(text, available) ==
    IF available THEN IntlSegments(text) ELSE RegexSegments(text)

Count(text, C) == Cardinality({i \in DOMAIN text : text[i] \in C})

getWeight(text) ==
    Len(text) + Count(text, Terminators) * PeriodWeight
              + Count(text, Commas) * CommaWeight
              + Count(text, Quotes) * QuoteWeight
              + Count(text, Newlines) * NewlineWeight

RECURSIVE SumWeights(_, _)
SumWeights(raw, n) ==
    IF n = 0 THEN 0 ELSE SumWeights(raw, n - 1) + getWeight(raw[n].segment)

\* Variant: the running weight counts characters only.
lengthBefore(raw, i) == raw[i].index

\* currentWeight when the map callback reaches segment i.
currentWeight(raw, i) == SumWeights(raw, i - 1)

\* The time that is not a number: 0 / 0, and every product with it.
NaN == -1

\* (weight / totalWeight) * totalDuration, in 1/Resolution of a tick; the
\* division has no guard, and the weights over a total of 0 are 0.
timeAt(weight, totalWeight, totalDuration) ==
    IF totalWeight = 0 THEN NaN
    ELSE ((weight * Resolution) \div totalWeight) * totalDuration

\* A position in ticks, in the unit of the span times.
Fine(t) == t * Resolution

\* !s.segment.trim()
isWhitespace(text) == \A i \in DOMAIN text : text[i] \in Spaces \cup Newlines

\* allMapped of the mapping effect; the id `s-${i}` is the number i.
MapSpans(raw, totalDuration) ==
    LET totalWeight == SumWeights(raw, Len(raw))
    IN  [i \in DOMAIN raw |->
            LET w == getWeight(raw[i].segment)
            IN  [id |-> i - 1,
                 text |-> raw[i].segment,
                 startChar |-> raw[i].index,
                 endChar |-> raw[i].index + Len(raw[i].segment),
                 startTime |-> timeAt(currentWeight(raw, i), totalWeight,
                                      totalDuration),
                 endTime |-> timeAt(currentWeight(raw, i) + w, totalWeight,
                                    totalDuration),
                 isWhitespace |-> isWhitespace(raw[i].segment)]]

\* allMapped.filter(s => !s.isWhitespace)
RECURSIVE Spoken(_)
Spoken(spans) ==
    IF spans = <<>> THEN <<>>
    ELSE IF Head(spans).isWhitespace THEN Spoken(Tail(spans))
    ELSE <<Head(spans)>> \o Spoken(Tail(spans))

\* sentences.find(s => currentTime >= s.startTime &&
\*                     currentTime < s.endTime)?.id
activeSentenceId ==
    LET hits == {i \in DOMAIN sentences :
                    /\ Fine(currentTime) >= sentences[i].startTime
                    /\ Fine(currentTime) < sentences[i].endTime}
    IN  IF hits = {} THEN NoId ELSE sentences[Min(hits)].id

\* The rest of the application while only the reader is looked at.
AppAtRest ==
    /\ env = NoKeys
    /\ fsettings = InitialSettings
    /\ svc = AllOk
    /\ fcall = ExecIdle
    /\ apiSettings = InitialSettings
    /\ storedSettings = <<>>
    /\ langLoadState = [l \in Languages |-> Unset]
    /\ preloadedContent = NoContent
    /\ stage = "READ"
    /\ selectedLanguage = 1
    /\ currentArticle = 1
    /\ cycles = <<>>
    /\ remote = [configured |-> FALSE, keys |-> NoKeys]
    /\ saves = 0
    /\ restarts = 0
    /\ delivered = {}
    /\ ev = NoEvent
    /\ fetchFailed = {}
    /\ LookupAtRest

TInit ==
    /\ content \in Texts
    /\ segmenterAvailable \in BOOLEAN
    /\ duration = 0
    /\ allMapped = <<>>
    /\ sentences = <<>>
    /\ currentTime = 0
    /\ isExternalAudio = FALSE
    /\ PlaybackAtRest
    /\ BackendOf(FALSE, FALSE)
    /\ AppAtRest

\* Bound on the animation-frame requests scheduled at once.
MaxFrames == 2

\* Variant: the request stays scheduled.
cancelNothing(scheduled, id) == scheduled

\* cancelAnimationFrame(id)
cancelAnimationFrame(scheduled, id) == scheduled \ {id}

\* requestAnimationFrame(loop): the id of the request.  Ids are named up to
\* renaming: the new one is the least that is not scheduled.
requestAnimationFrame(scheduled) == Min((1..MaxFrames) \ scheduled)

\* The dependencies of the animation-loop effect.
rafDeps == <<isPlaying, audioContext, duration, loopRange, isExternalAudio>>

\* The cleanup of the animation-loop effect, with ref in rafRef.current:
\* what stays scheduled.
rafCleanup(ref, scheduled) ==
    IF ref # 0 THEN cancelAnimationFrame(scheduled, ref) ELSE scheduled

\* The body of the animation-loop effect: it requests a frame.
rafSchedule(scheduled) ==
    /\ scheduled # 1..MaxFrames
    /\ rafRef' = requestAnimationFrame(scheduled)
    /\ frames' = scheduled \cup {rafRef'}

\* The animation-loop effect after a render that follows updates made with
\* ref in rafRef.current: cleanup and body run again when one of the
\* dependencies has changed.
rafEffectAfter(ref, scheduled) ==
    IF rafDeps' # rafDeps THEN rafSchedule(rafCleanup(ref, scheduled))
    ELSE rafRef' = ref /\ frames' = scheduled

rafEffect == rafEffectAfter(rafRef, frames)

\* The narration's duration becomes known (decoded buffer or loadedmetadata:
\* setDuration), and the segmentation and time-mapping effect runs.
DurationKnown(d) ==
    /\ duration = 0
    /\ duration' = d
    /\ allMapped' = MapSpans(rawSegments(content, segmenterAvailable), d)
    /\ sentences' = Spoken(allMapped')
    /\ audioBuffer' = article
    /\ decoding' = {}
    /\ UNCHANGED <<content, segmenterAvailable, currentTime, aonly,
                   notMedium>>
    /\ rafEffect

\* The positions explored: both ends of the narration and the ticks around
\* every span boundary.
Positions ==
    {0, duration} \cup
    {t \in 0..duration : \E i \in DOMAIN allMapped :
        \/ Fine(t) <= allMapped[i].endTime /\ allMapped[i].endTime < Fine(t + 1)
        \/ Fine(t - 1) < allMapped[i].endTime /\ allMapped[i].endTime <= Fine(t)}

\* The clock publishes a position: setCurrentTime(t).
Publish(t) ==
    /\ duration > 0
    /\ currentTime' = t
    /\ UNCHANGED <<tonly, duration, aonly, notReader, conly>>

TNext ==
    \/ \E d \in 1..MaxDuration \cup {ScenarioDuration} : DurationKnown(d)
    \/ \E t \in Positions : Publish(t)

SpecTimeline == TInit /\ [][TNext]_vars

\* The time mapping on its own, over ordered spans of any text, the empty
\* one included: the steps from totalWeight to allMapped and setSentences.
MaxSpans == 3

SegmentTexts == {<<>>, <<"a">>, <<"?">>}

SpanLists == UNION {[1..n -> SegmentTexts] : n \in 1..MaxSpans}

MInit ==
    /\ content = <<"a">>
    /\ segmenterAvailable = TRUE
    /\ duration = 0
    /\ allMapped = <<>>
    /\ sentences = <<>>
    /\ currentTime = 0
    /\ isExternalAudio = FALSE
    /\ PlaybackAtRest
    /\ BackendOf(FALSE, FALSE)
    /\ AppAtRest

MapTimeline(texts, d) ==
    /\ duration' = d
    /\ allMapped' = MapSpans(Indexed(texts, 0), d)
    /\ sentences' = Spoken(allMapped')
    /\ UNCHANGED <<content, segmenterAvailable, currentTime, aonly,
                   notReader>>
    /\ rafEffect

MNext == \E texts \in SpanLists, d \in 1..MaxDuration : MapTimeline(texts, d)

SpecMapper == MInit /\ [][MNext]_vars

----------------------------------------------------------------------------
(* ArticleView: the two playback engines.  Times are ticks of a tenth of a  *)
(* second.  A handler is a function from the playback state to the          *)
(* playback state, so that a handler that calls stop() or play() is the     *)
(* composition the code runs.                                               *)

MaxClock == 4
MaxPending == 1
EndTolerance == 1

\* The loop ranges and offsets play() is called with.
Ranges ==
    {r \in [start : 0..duration, end : 0..(duration + 1)] : r.start < r.end}

Offsets == 0..(duration + 1)

\* Whether the element's play() promise resolves; the buffered engine has
\* no such promise.
PlayOutcomes == IF isExternalAudio THEN BOOLEAN ELSE {TRUE}

\* The playback state the handlers read and write.
Cur ==
    [isPlaying |-> isPlaying, loopRange |-> loopRange,
     pausedAtRef |-> pausedAtRef, startTimeRef |-> startTimeRef,
     sourceRef |-> sourceRef, audioEl |-> audioEl, ended |-> ended,
     currentTime |-> currentTime, started |-> started,
     loopingSentenceId |-> loopingSentenceId]

SetState(st) ==
    /\ isPlaying' = st.isPlaying
    /\ loopRange' = st.loopRange
    /\ pausedAtRef' = st.pausedAtRef
    /\ startTimeRef' = st.startTimeRef
    /\ sourceRef' = st.sourceRef
    /\ audioEl' = st.audioEl
    /\ ended' = st.ended
    /\ currentTime' = st.currentTime
    /\ started' = st.started
    /\ loopingSentenceId' = st.loopingSentenceId
    /\ UNCHANGED <<tonly, duration, isExternalAudio, notReader>>

\* A handler's state updates, the render and the effects that follow.
Set(st) == SetState(st) /\ rafEffect

\* A step that calls play() sets what is remembered of it; any other step
\* forgets the last play() call.
Forget(st) ==
    [st EXCEPT !.started = [NoStart EXCEPT !.pausedAt = st.started.pausedAt]]

\* A media position set on the element or given to source.start is kept
\* within the medium.
Seekable(t) == IF t < 0 THEN 0 ELSE IF t > duration THEN duration ELSE t

\* try { sourceRef.current.stop() } catch(e){}; sourceRef.current = null:
\* stopping a node that still plays queues its ended event.
StopNode(st) ==
    IF st.sourceRef = NoNode THEN st
    ELSE [st EXCEPT !.sourceRef = NoNode,
                    !.ended = IF st.sourceRef.live
                              THEN Append(@, [offset |-> st.sourceRef.offset,
                                              loop |-> st.sourceRef.loop])
                              ELSE @]

\* Variant: the offset is used as given.
clampNever(offset, range, loopEnd) == offset

\* if (offset < range.start || offset > loopEnd) offset = range.start
clampOffset(offset, range, loopEnd) ==
    IF range # NoRange /\ (offset < range.start \/ offset > loopEnd)
    THEN range.start ELSE offset

\* play(offset, range); ok tells whether the element's play() promise
\* resolves.
play(st, offset, range, ok) ==
    IF isExternalAudio /\ audioElRef # 0
    THEN LET off == clampOffset(offset, range, range.end)
             el == [st.audioEl EXCEPT !.currentTime = Seekable(off)]
         IN  [st EXCEPT !.loopRange = range,
                        !.audioEl = IF ok THEN [el EXCEPT !.paused = FALSE]
                                    ELSE el,
                        !.isPlaying = IF ok THEN TRUE ELSE @,
                        !.started = [offset |-> offset, range |-> range,
                                     at |-> el.currentTime, pausedAt |-> -1]]
    ELSE IF isExternalAudio \/ audioContext = 0 \/ audioBuffer = 0
            \/ gainNodeRef = 0
    THEN st
    ELSE LET s1 == StopNode(st)
             loopEnd == IF duration < range.end THEN duration ELSE range.end
             off == clampOffset(offset, range, loopEnd)
             source == [offset |-> off, loop |-> range # NoRange,
                        loopStart |-> IF range # NoRange THEN range.start
                                      ELSE 0,
                        loopEnd |-> IF range # NoRange THEN loopEnd ELSE 0,
                        startedAt |-> clock, live |-> TRUE]
         IN  [s1 EXCEPT !.loopRange = range,
                        !.sourceRef = source,
                        !.startTimeRef = clock - off,
                        !.pausedAtRef = off,
                        !.isPlaying = TRUE,
                        !.started = [offset |-> offset, range |-> range,
                                     at |-> Seekable(off), pausedAt |-> -1]]

\* stop()
stop(st) ==
    IF isExternalAudio /\ audioElRef # 0
    THEN [st EXCEPT !.audioEl.paused = TRUE, !.isPlaying = FALSE,
                    !.loopingSentenceId = NoId, !.loopRange = NoRange]
    ELSE [StopNode(st) EXCEPT !.isPlaying = FALSE,
                              !.loopingSentenceId = NoId,
                              !.loopRange = NoRange]

\* The position of a buffer source node that plays without a loop.
NodePosition(n) == n.offset + (clock - n.startedAt)

\* What togglePlay stores after stop().
PausePosition ==
    IF isExternalAudio THEN audioEl.currentTime ELSE clock - startTimeRef

togglePlay(ok) ==
    IF isPlaying
    THEN [Forget(stop(Cur)) EXCEPT
            !.pausedAtRef = PausePosition,
            !.started.pausedAt =
                IF ~isExternalAudio /\ sourceRef.live /\ ~sourceRef.loop
                THEN NodePosition(sourceRef) ELSE -1]
    ELSE play(Cur, IF pausedAtRef >= duration THEN 0 ELSE pausedAtRef,
              NoRange, ok)

handleSeek(time, ok) ==
    LET s0 == [Cur EXCEPT !.currentTime = time,
                          !.pausedAtRef = time,
                          !.loopingSentenceId = NoId,
                          !.loopRange = NoRange,
                          !.audioEl.currentTime =
                              IF isExternalAudio /\ audioElRef # 0
                              THEN Seekable(time) ELSE @,
                          !.started = NoStart]
    IN  IF isPlaying THEN play(s0, time, NoRange, ok) ELSE s0

\* The scrubber's range: min 0, max {duration || 1}, in steps of one tick.
OneSecond == 10

ScrubberMax == IF duration = 0 THEN OneSecond ELSE duration

\* The step of the rewind and forward buttons: 10 s.
SkipStep == 100

\* The body the rewind and forward buttons share, newTime computed.
skipTo(newTime, ok) ==
    LET s0 == [Cur EXCEPT !.currentTime = newTime, !.started = NoStart]
        s1 == IF isPlaying THEN play(s0, newTime, NoRange, ok)
              ELSE [s0 EXCEPT !.pausedAtRef = newTime]
    IN  [s1 EXCEPT !.audioEl.currentTime =
            IF isExternalAudio /\ audioElRef # 0
            THEN Seekable(newTime) ELSE @]

\* onClick of the 'Rewind 10s' button.
rewind(ok) == skipTo(Max({0, currentTime - SkipStep}), ok)

\* onClick of the 'Forward 10s' button.
forward(ok) == skipTo(Min({duration, currentTime + SkipStep}), ok)

\* The padding handleSentenceClick puts around a sentence, in ticks.
PaddingStart == 1

PaddingEnd == 10

\* The whole ticks at or below, and at or above, a span time.
TickBelow(f) == f \div Resolution

TickAbove(f) == (f + Resolution - 1) \div Resolution

\* handleSentenceClick(sentence) with nothing selected: the range is taken
\* to whole ticks, outwards.
handleSentenceClick(sentence, ok) ==
    LET safeStart == Max({0, TickBelow(sentence.startTime) - PaddingStart})
        safeEnd == Min({duration, TickAbove(sentence.endTime) + PaddingEnd})
        s0 == [Cur EXCEPT !.loopingSentenceId = sentence.id,
                          !.currentTime = safeStart,
                          !.audioEl.currentTime =
                              IF isExternalAudio /\ audioElRef # 0
                              THEN Seekable(safeStart) ELSE @]
    IN  play(s0, safeStart, [start |-> safeStart, end |-> safeEnd], ok)

\* source.onended of the node whose closure is n.
onended(st, n) ==
    IF n.loop THEN st
    ELSE IF clock - st.startTimeRef >= duration - n.offset - EndTolerance
    THEN [st EXCEPT !.isPlaying = FALSE, !.currentTime = 0,
                    !.pausedAtRef = 0]
    ELSE [st EXCEPT !.isPlaying = FALSE]

\* Variant: no wrap, the position keeps growing.
NoWrap(a, b) == a

\* The remainder operator of JavaScript: the sign of the dividend.
Rem(a, b) == IF a >= 0 THEN a % b ELSE -((-a) % b)

\* loop() of the animation-frame effect.
loop(st) ==
    LET el == IF /\ isExternalAudio /\ st.isPlaying
                 /\ st.loopRange # NoRange
                 /\ st.audioEl.currentTime >= st.loopRange.end
              THEN [st.audioEl EXCEPT
                        !.currentTime = Seekable(st.loopRange.start)]
              ELSE st.audioEl
        s1 == [st EXCEPT !.audioEl = el]
    IN  IF ~st.isPlaying THEN s1
        ELSE IF isExternalAudio
        THEN [s1 EXCEPT !.currentTime = el.currentTime]
        ELSE IF st.loopRange # NoRange /\ st.sourceRef.loop
        THEN LET loopEnd == IF st.sourceRef.loopEnd # 0
                            THEN st.sourceRef.loopEnd ELSE st.loopRange.end
                 loopDuration == loopEnd - st.sourceRef.loopStart
                 rawElapsed == clock - st.startTimeRef
                 linearPos ==
                    IF loopDuration > 0
                    THEN st.loopRange.start
                            + Rem(rawElapsed - st.loopRange.start,
                                  loopDuration)
                    ELSE st.loopRange.start
             IN  [s1 EXCEPT !.currentTime =
                    IF linearPos < st.loopRange.start
                    THEN st.loopRange.start ELSE linearPos]
        ELSE LET rawTime == clock - st.startTimeRef
             IN  [s1 EXCEPT !.currentTime =
                    IF rawTime < duration THEN rawTime ELSE duration]

\* The reader with its audio initialised and the duration known.
AInit ==
    /\ isExternalAudio \in BOOLEAN
    /\ content = <<"a", "?">>
    /\ segmenterAvailable = TRUE
    /\ duration = MaxDuration
    /\ allMapped = MapSpans(rawSegments(content, segmenterAvailable), duration)
    /\ sentences = Spoken(allMapped)
    /\ currentTime = 0
    /\ PlaybackAtRest
    /\ BackendOf(isExternalAudio, TRUE)
    /\ AppAtRest

\* The non-looping node has reached the end of the buffer.
FinishDue ==
    /\ ~isExternalAudio
    /\ sourceRef.live /\ ~sourceRef.loop
    /\ NodePosition(sourceRef) >= duration

\* play(offset, range) with a loop range.
PlayRange ==
    /\ Len(ended) < MaxPending
    /\ \E offset \in Offsets, range \in Ranges, ok \in PlayOutcomes :
        Set(play(Cur, offset, range, ok))
    /\ UNCHANGED clock

\* A click on a sentence of the article.
HandleSentenceClick ==
    /\ Len(ended) < MaxPending
    /\ \E i \in DOMAIN sentences, ok \in PlayOutcomes :
        Set(handleSentenceClick(sentences[i], ok))
    /\ UNCHANGED clock

TogglePlay ==
    /\ Len(ended) < MaxPending
    /\ \E ok \in PlayOutcomes : Set(togglePlay(ok))
    /\ UNCHANGED clock

\* The scrubber is moved to one of `times`.
HandleSeekAmong(times) ==
    /\ Len(ended) < MaxPending
    /\ \E time \in times, ok \in PlayOutcomes : Set(handleSeek(time, ok))
    /\ UNCHANGED clock

HandleSeek == HandleSeekAmong(0..ScrubberMax)

Rewind ==
    /\ Len(ended) < MaxPending
    /\ \E ok \in PlayOutcomes : Set(rewind(ok))
    /\ UNCHANGED clock

Forward ==
    /\ Len(ended) < MaxPending
    /\ \E ok \in PlayOutcomes : Set(forward(ok))
    /\ UNCHANGED clock

\* The ended event of a buffer source node is delivered.
NodeEnded ==
    /\ ended # <<>>
    /\ Set(Forget([onended(Cur, Head(ended)) EXCEPT !.ended = Tail(ended)]))
    /\ UNCHANGED clock

\* The node that plays reaches the end of the buffer and stops.
NodeFinishes ==
    /\ FinishDue
    /\ Len(ended) < MaxPending
    /\ Set(Forget([Cur EXCEPT
            !.sourceRef.live = FALSE,
            !.ended = Append(@, [offset |-> sourceRef.offset,
                                 loop |-> FALSE])]))
    /\ UNCHANGED clock

\* A tenth of a second passes on the audio context's clock.
ContextTick ==
    /\ ~isExternalAudio
    /\ clock < MaxClock
    /\ ~FinishDue
    /\ clock' = clock + 1
    /\ Set(Forget(Cur))

\* A tenth of a second of the element's medium plays; at the end of the
\* medium the element pauses and queues its ended event.
ElementTick ==
    /\ isExternalAudio
    /\ ~audioEl.paused
    /\ LET t == Seekable(audioEl.currentTime + 1)
       IN  Set(Forget([Cur EXCEPT
                !.audioEl = [currentTime |-> t,
                             paused |-> t = duration,
                             ended |-> IF t = duration THEN TRUE
                                       ELSE audioEl.ended]]))
    /\ UNCHANGED clock

\* The element's 'ended' listener.
AudioEnded ==
    /\ audioEl.ended
    /\ Set(Forget([Cur EXCEPT !.audioEl.ended = FALSE,
                              !.isPlaying = FALSE,
                              !.currentTime = 0]))
    /\ UNCHANGED clock

\* The element's 'timeupdate' listener.
TimeUpdate ==
    /\ isExternalAudio
    /\ currentTime # audioEl.currentTime
    /\ Set(Forget([Cur EXCEPT !.currentTime = audioEl.currentTime]))
    /\ UNCHANGED clock

\* A scheduled frame fires: loop() runs and requests the next frame.
AnimationFrame ==
    /\ \E id \in frames :
        LET pending == frames \ {id}
            next == requestAnimationFrame(pending)
        IN  /\ SetState(Forget(loop(Cur)))
            /\ rafEffectAfter(next, pending \cup {next})
    /\ UNCHANGED clock

ANext ==
    \/ PlayRange
    \/ HandleSentenceClick
    \/ TogglePlay
    \/ HandleSeek
    \/ Rewind
    \/ Forward
    \/ NodeEnded
    \/ NodeFinishes
    \/ ContextTick
    \/ ElementTick
    \/ AudioEnded
    \/ TimeUpdate
    \/ AnimationFrame

SpecPlayback == AInit /\ [][ANext]_vars

----------------------------------------------------------------------------
(* ArticleView: the audio backends across articles.  The reader stays       *)
(* mounted while the stage is READ: choosing an article in the history      *)
(* sidebar changes its article prop, and the audio effect runs its previous *)
(* cleanup and then its body; leaving the stage unmounts it, which runs the *)
(* cleanup alone.  An effect sees the state of the render it was created    *)
(* in.  Audio contexts and elements are handles 1, 2, ...                   *)

NumArticles == 4

\* Bound on the contexts and elements created.
MaxHandles == 3

Articles == 1..NumArticles

\* Articles 2 and 4 are official media (audioUrl); the others are narrated
\* from audioBase64.
ArticleAudio(a) == IF a \in {2, 4} THEN "url" ELSE "base64"

ArticleContent(a) == IF a = 3 THEN <<"a", "?", "a", "?">> ELSE <<"a", "?">>

ArticleDuration(a) == IF a = 3 THEN MaxDuration - 1 ELSE MaxDuration

\* The segmentation and time-mapping effect, run with the article text and
\* duration of a render: what setSentences receives, or the sentences as
\* they are when the effect returns early.
mapped(text, d, before) ==
    IF d = 0 \/ text = <<>> THEN before
    ELSE MapSpans(rawSegments(text, segmenterAvailable), d)

mappingEffect(text, d, before) ==
    IF d = 0 \/ text = <<>> THEN before
    ELSE Spoken(MapSpans(rawSegments(text, segmenterAvailable), d))

\* Variant: each change of the volume is added to the backend's value.
volumeAdds(external, el, gn, g, e, v) ==
    IF external /\ el # 0 THEN [gain |-> g, elVolume |-> e + v]
    ELSE IF gn # 0 THEN [gain |-> g + v, elVolume |-> e]
    ELSE [gain |-> g, elVolume |-> e]

\* The volume effect: the gain and the element volume it leaves, from the
\* engine flag, audioElRef, gainNodeRef, the two values and the volume.
volumeEffect(external, el, gn, g, e, v) ==
    IF external /\ el # 0 THEN [gain |-> g, elVolume |-> v]
    ELSE IF gn # 0 THEN [gain |-> v, elVolume |-> e]
    ELSE [gain |-> g, elVolume |-> e]

\* setVolume(v) from the slider or the mute button, and the volume effect.
SetVolume(v) ==
    /\ article # 0
    /\ v # volume
    /\ volume' = v
    /\ LET after == volumeEffect(isExternalAudio, audioElRef, gainNodeRef,
                                 gain, elVolume, v)
       IN  /\ gain' = after.gain
           /\ elVolume' = after.elVolume
    /\ UNCHANGED <<article, audioContext, effectContext, openContexts,
                   sounding, audioElRef, elements, handles, gainNodeRef,
                   bonly, ronly, fvars, ponly, lonly, conly>>

\* The cleanup of the audio effect: it closes the context its closure
\* holds, and pauses and drops the element audioElRef refers to.
AfterCleanup ==
    [open |-> openContexts \ {effectContext},
     elements |-> elements \ {audioElRef}]

\* initAudio() for article b, on top of the reset: the new backend.
initAudio(b, open, els) ==
    LET h == handles + 1
    IN  /\ handles' = h
        /\ IF ArticleAudio(b) = "url"
           THEN /\ isExternalAudio' = TRUE
                /\ audioElRef' = h
                /\ elements' = els \cup {h}
                /\ audioEl' = [currentTime |-> 0, paused |-> TRUE,
                               ended |-> FALSE]
                /\ elVolume' = IF isExternalAudio THEN MaxVolume ELSE volume
                /\ audioContext' = 0
                /\ openContexts' = open
                /\ UNCHANGED <<gainNodeRef, gain, clock>>
           ELSE /\ isExternalAudio' = FALSE
                /\ audioContext' = h
                /\ openContexts' = open \cup {h}
                /\ gainNodeRef' = h
                /\ gain' = volume
                /\ clock' = 0
                /\ audioElRef' = 0
                /\ elements' = els
                /\ UNCHANGED <<audioEl, elVolume>>
        /\ decoding' = decoding \cup {[ctx |-> h, article |-> b]}

\* The article prop of the mounted reader changes to b
\* (handleHistorySelect while reading).
Switch(b) ==
    /\ article # 0 /\ b # article
    /\ handles < MaxHandles
    /\ LET c == AfterCleanup
       IN  initAudio(b, c.open \ {audioContext}, c.elements)
    /\ article' = b
    /\ content' = ArticleContent(b)
    /\ effectContext' = audioContext
    /\ allMapped' = mapped(ArticleContent(b), duration, allMapped)
    /\ sentences' = mappingEffect(ArticleContent(b), duration, sentences)
    /\ audioBuffer' = 0
    /\ duration' = 0
    /\ currentTime' = 0
    /\ isPlaying' = FALSE
    /\ pausedAtRef' = 0
    /\ loopRange' = NoRange
    /\ loopingSentenceId' = NoId
    /\ sourceRef' = IF sourceRef = NoNode THEN NoNode
                    ELSE [sourceRef EXCEPT !.live = FALSE]
    /\ started' = NoStart
    /\ UNCHANGED <<segmenterAvailable, startTimeRef, ended, sounding, volume,
                   fvars, ponly, lonly>>
    /\ rafEffect

\* The reader is unmounted (handleNavigation): the cleanup runs, the
\* component's state is gone, and what the cleanup did not release stays.
Unmount ==
    /\ article # 0
    /\ LET c == AfterCleanup
       IN  /\ openContexts' = c.open
           /\ elements' = c.elements
           /\ sounding' = (sounding \cap c.open) \cup
                    (IF sourceRef.live /\ audioContext \in c.open
                     THEN {audioContext} ELSE {})
    /\ article' = 0
    /\ stage' = "SELECTION"
    /\ content' = <<>>
    /\ allMapped' = <<>>
    /\ sentences' = <<>>
    /\ duration' = 0
    /\ currentTime' = 0
    /\ isExternalAudio' = FALSE
    /\ isPlaying' = FALSE
    /\ loopRange' = NoRange
    /\ loopingSentenceId' = NoId
    /\ pausedAtRef' = 0
    /\ startTimeRef' = 0
    /\ sourceRef' = NoNode
    /\ clock' = 0
    /\ audioEl' = [currentTime |-> 0, paused |-> TRUE, ended |-> FALSE]
    /\ ended' = <<>>
    /\ started' = NoStart
    /\ audioContext' = 0
    /\ effectContext' = 0
    /\ audioElRef' = 0
    /\ gainNodeRef' = 0
    /\ volume' = MaxVolume
    /\ gain' = MaxVolume
    /\ elVolume' = MaxVolume
    /\ audioBuffer' = 0
    /\ decoding' = {}
    /\ frames' = rafCleanup(rafRef, frames)
    /\ rafRef' = 0
    /\ UNCHANGED <<segmenterAvailable, handles, fvars, apiSettings,
                   storedSettings, langLoadState, preloadedContent,
                   selectedLanguage, currentArticle, cycles, remote, saves,
                   restarts, delivered, ev, fetchFailed, lonly>>

\* An article is chosen while no reader is mounted (handleArticleSelect,
\* handleHistorySelect): a new reader mounts and its effects run.
Mount(b) ==
    /\ article = 0
    /\ handles < MaxHandles
    /\ initAudio(b, openContexts, elements)
    /\ article' = b
    /\ stage' = "READ"
    /\ content' = ArticleContent(b)
    /\ effectContext' = 0
    /\ UNCHANGED <<segmenterAvailable, allMapped, sentences, duration,
                   currentTime, isPlaying, loopRange, loopingSentenceId,
                   pausedAtRef, startTimeRef, sourceRef, ended, started,
                   sounding, volume, audioBuffer, fvars, apiSettings,
                   storedSettings, langLoadState, preloadedContent,
                   selectedLanguage, currentArticle, cycles, remote, saves,
                   restarts, delivered, ev, fetchFailed, lonly>>
    /\ rafSchedule(frames)

\* A load in flight settles: decodeAudioData resolves or rejects, or the
\* element fires loadedmetadata; then the mapping effect runs.
LoadSettles(j, ok) ==
    /\ j \in decoding
    /\ decoding' = decoding \ {j}
    /\ IF ok
       THEN /\ duration' = ArticleDuration(j.article)
            /\ audioBuffer' = IF ArticleAudio(j.article) = "url"
                              THEN audioBuffer ELSE j.article
            /\ allMapped' = mapped(content, duration', allMapped)
            /\ sentences' = mappingEffect(content, duration', sentences)
       ELSE /\ ArticleAudio(j.article) = "base64"
            /\ UNCHANGED <<duration, audioBuffer, allMapped, sentences>>
    /\ UNCHANGED <<content, segmenterAvailable, currentTime, aonly, monly,
                   fvars, ponly, lonly>>
    /\ rafEffect

\* The reader showing article 1, its audio being decoded.
SInit ==
    /\ content = ArticleContent(1)
    /\ segmenterAvailable = TRUE
    /\ duration = 0
    /\ allMapped = <<>>
    /\ sentences = <<>>
    /\ currentTime = 0
    /\ isExternalAudio = FALSE
    /\ PlaybackAtRest
    /\ BackendOf(FALSE, FALSE)
    /\ AppAtRest

SNext ==
    \/ \E b \in Articles : Switch(b)
    \/ Unmount
    \/ \E b \in Articles : Mount(b)
    \/ \E j \in decoding, ok \in BOOLEAN : LoadSettles(j, ok)
    \/ \E v \in 0..MaxVolume : SetVolume(v)
    \/ article # 0 /\ TogglePlay
    \/ article # 0 /\ HandleSentenceClick

SpecSwitch == SInit /\ [][SNext]_vars

\* The same reader with its scrubber and its rewind and forward buttons;
\* the scrubber is taken to either end of its range.
XNext ==
    \/ SNext
    \/ article # 0 /\ HandleSeekAmong({0, ScrubberMax})
    \/ article # 0 /\ Rewind
    \/ article # 0 /\ Forward
    \/ article # 0 /\ AnimationFrame

SpecReader == SInit /\ [][XNext]_vars

----------------------------------------------------------------------------
(* Claims about the per-call fallback                                       *)

Finished == fcall.stage \in {"returned", "raised"}

\* What the first handler answers to this call.
PrimaryOutcome ==
    HandlerCall(PrimaryHandler(fsettings), fcall.op, fsettings, env, svc)

\* What the configured backup's handler answers to this call.
BackupOutcome ==
    HandlerCall(getHandler(fsettings.backup), fcall.op, fsettings, env, svc)

PrimaryQuotaFailure == ~PrimaryOutcome.ok /\ isQuotaError(PrimaryOutcome)

BackupConfigured == fsettings.backup \in {"openai", "deepseek"}

\* C1 as stated: whenever the primary handler raises a quota-classified
\* failure and the configured backup's handler (openai or deepseek) succeeds
\* on the operation, the call returns the backup handler's result.
C1_AsStated ==
    (Finished /\ PrimaryQuotaFailure /\ BackupConfigured /\ BackupOutcome.ok)
        => (fcall.stage = "returned" /\ fcall.out = <<BackupOutcome>>)

\* C1 amended: the same, provided a credential for the backup provider
\* itself is resolvable from the settings or the environment.
C1_FallbackReturnsBackup ==
    (/\ Finished /\ PrimaryQuotaFailure /\ BackupConfigured
     /\ getKey(fsettings.backup, fsettings, env) # 0
     /\ BackupOutcome.ok)
        => (fcall.stage = "returned" /\ fcall.out = <<BackupOutcome>>)

C1_Witness ==
    /\ fcall.stage = "returned"
    /\ fcall.op = "generateSpeech"
    /\ PrimaryQuotaFailure
    /\ fsettings.backup = "deepseek"
    /\ fcall.out = <<BackupOutcome>>
    /\ fcall.out[1].served = "openai"

\* C2 as stated: primary provider A holds an invalid key, backup provider B
\* holds a valid key; analyzeWord returns B's result.  (Stated for the
\* settings whose primary is the provider the call does try first.)
C2_AsStated ==
    (/\ Finished /\ fcall.op = "analyzeWord"
     /\ fsettings.primary = PrimaryHandler(fsettings)
     /\ fsettings.primary # fsettings.backup
     /\ getKey(fsettings.primary, fsettings, env) # 0
     /\ svc[fsettings.primary] = "invalid"
     /\ getKey(fsettings.backup, fsettings, env) # 0
     /\ svc[fsettings.backup] = "ok")
        => (/\ fcall.stage = "returned"
            /\ fcall.out[1].handler = fsettings.backup)

\* C2 amended: Gemini (the provider every call tries first) holds a key
\* that the service rejects as out of quota, backup provider B (openai or
\* deepseek) holds a valid key; analyzeWord returns B's result.
C2_ProviderSwap ==
    (/\ Finished /\ fcall.op = "analyzeWord"
     /\ getKey("gemini", fsettings, env) # 0
     /\ svc["gemini"] = "quota"
     /\ BackupConfigured
     /\ getKey(fsettings.backup, fsettings, env) # 0
     /\ svc[fsettings.backup] = "ok")
        => (/\ fcall.stage = "returned"
            /\ fcall.out[1].handler = fsettings.backup
            /\ fcall.out[1].served = fsettings.backup)

C2_Witness ==
    /\ fcall.stage = "returned"
    /\ fcall.op = "analyzeWord"
    /\ svc["gemini"] = "quota"
    /\ getKey("gemini", fsettings, env) # 0
    /\ fsettings.backup = "deepseek"
    /\ fcall.out[1].handler = "deepseek"

\* C3: if the primary's failure is not quota-classified, or the backup is
\* not a provider different from the primary, or no credential is
\* resolvable for the backup, the call raises the primary's own failure and
\* the backup handler is never invoked.
C3_NoFallbackRaisesPrimary ==
    (/\ Finished
     /\ ~PrimaryOutcome.ok
     /\ \/ ~isQuotaError(PrimaryOutcome)
        \/ fsettings.backup = PrimaryHandler(fsettings)
        \/ getKey(fsettings.backup, fsettings, env) = 0)
        => (/\ fcall.stage = "raised"
            /\ fcall.out = <<PrimaryOutcome>>
            /\ fcall.attempts = <<PrimaryHandler(fsettings)>>)

C3_Witness ==
    /\ fcall.stage = "raised"
    /\ PrimaryQuotaFailure
    /\ fsettings.backup = "openai"
    /\ getKey("openai", fsettings, env) = 0
    /\ fcall.attempts = <<"gemini">>

\* C4: one call invokes the primary handler exactly once and the backup
\* handler at most once; a failed backup attempt raises the backup's own
\* failure and nothing is attempted after it.
C4_NoFallbackChain ==
    /\ fcall.stage # "idle" =>
        /\ Len(fcall.attempts) \in {1, 2}
        /\ fcall.attempts[1] = PrimaryHandler(fsettings)
        /\ Len(fcall.attempts) = 2 =>
            /\ fcall.attempts[2] = fsettings.backup
            /\ fcall.attempts[2] # fcall.attempts[1]
        /\ fcall.stage = "primary" => Len(fcall.attempts) = 1
    /\ (Finished /\ Len(fcall.attempts) = 2 /\ ~BackupOutcome.ok)
        => (fcall.stage = "raised" /\ fcall.out = <<BackupOutcome>>)

C4_Witness ==
    /\ fcall.stage = "raised"
    /\ Len(fcall.attempts) = 2
    /\ fcall.out = <<BackupOutcome>>
    /\ isQuotaError(PrimaryOutcome)

----------------------------------------------------------------------------
(* Claims about the preload cycle                                           *)

\* The cycles that have neither returned nor been rejected.
InFlight == {c \in DOMAIN cycles : cycles[c].phase \notin {"done", "crashed"}}

\* C5 as stated: a quota-classified failure is never followed by a retry
\* against the same provider: a call's second attempt goes to a handler
\* other than the one that failed, and a restart of the preload cycle by the
\* recovery branch runs under a Gemini credential other than the one the
\* failed cycle was using.
C5_AsStated ==
    /\ [](\A c \in DOMAIN cycles :
            cycles[c].call.stage = "backup" =>
                Awaited(cycles[c].call) # cycles[c].call.attempts[1])
    /\ [][\A c \in DOMAIN cycles :
            (ev'.type = "restart" /\ ev'.cycle = c) =>
                getKey("gemini", cycles'[Len(cycles')].settings, env)
                    # getKey("gemini", cycles[c].settings, env)]_vars

\* C6: when the recovery branch of cycle c gets no configuration, no Gemini
\* key, or the Gemini key of the settings that just failed, no cycle is
\* started, the language ends loading = false and ready = false, and the
\* cycle goes on to its delay; and a cycle only ever enters a language
\* through the delay of the language before it, so the language is not
\* attempted again.
C6_NoInfiniteRetry ==
    [][\A c \in DOMAIN cycles :
        /\ (/\ cycles[c].phase = "config"
            /\ ev'.cycle = c /\ ev'.type \in {"restart", "crash", "abort"}
            /\ \/ ~ev'.found
               \/ ev'.fresh.gemini = 0
               \/ ev'.fresh.gemini = cycles[c].settings.keys.gemini)
            => (/\ Len(cycles') = Len(cycles)
                /\ restarts' = restarts
                /\ langLoadState'[cycles[c].li] = Failed
                /\ cycles'[c].phase = "delay"
                /\ cycles'[c].li = cycles[c].li
                /\ UNCHANGED <<apiSettings, storedSettings>>)
        /\ (c \in InFlight /\ cycles'[c].phase \notin {"done", "crashed"})
            => (/\ cycles'[c].li >= cycles[c].li
                /\ cycles'[c].li # cycles[c].li
                     => (/\ cycles[c].phase = "delay"
                         /\ cycles'[c].li = cycles[c].li + 1))]_vars

C6_Witness ==
    /\ ev.type = "abort"
    /\ ev.found
    /\ ev.fresh.gemini # 0
    /\ ev.fresh.gemini = cycles[ev.cycle].settings.keys.gemini
    /\ langLoadState[cycles[ev.cycle].li] = Failed
    /\ cycles[ev.cycle].li = 1
    /\ cycles[ev.cycle].phase = "delay"

\* C7 as stated: when the recovery branch of cycle c gets a Gemini key
\* different from the one in the failing settings, the merged settings are
\* persisted and adopted, a new cycle over all languages starts under them
\* and cycle c has returned; a cycle that has ended stays as it is.
C7_AsStated ==
    [][\A c \in DOMAIN cycles :
        /\ (/\ cycles[c].phase = "config"
            /\ ev'.cycle = c /\ ev'.type \in {"restart", "crash", "abort"}
            /\ ev'.found
            /\ ev'.fresh.gemini # 0
            /\ ev'.fresh.gemini # cycles[c].settings.keys.gemini)
            => LET merged == MergeKeys(cycles[c].settings, ev'.fresh)
               IN  /\ storedSettings' = <<merged>>
                   /\ apiSettings' = merged
                   /\ Len(cycles') = Len(cycles) + 1
                   /\ cycles'[Len(cycles')].settings = merged
                   /\ cycles'[Len(cycles')].li = 1
                   /\ cycles'[Len(cycles')].phase = "news"
                   /\ cycles'[c].phase = "done"
        /\ c \notin InFlight => cycles'[c] = cycles[c]]_vars

\* C8 as stated: the restarts made by the recovery branch never outnumber
\* the distinct Gemini keys the remote store has delivered to it.
C8_AsStated == restarts <= Cardinality(delivered)

\* C9 as stated: at most one preload provider call is outstanding.
C9_AsStated ==
    Cardinality({c \in DOMAIN cycles :
                    InCall(c) /\ cycles[c].wait = "net"}) <= 1

\* C10 as stated: once a later cycle has been started, a cycle writes
\* neither articles nor a ready or failed status: every such write is made
\* by the cycle started last.
C10_AsStated ==
    ev.type \in {"loaded", "failed", "abort"} => ev.cycle = Len(cycles)

\* The step just taken wrote the status of a language: the cycle and the
\* language it wrote.
Wrote == ev.type \in {"loaded", "failed", "abort"}

WrittenLang == cycles[ev.cycle].li

\* C11 as stated: a language for which the news fetch or the
\* general-article fetch has raised (and no restart followed) is written
\* ready = false.
C11_AsStated ==
    (Wrote /\ fetchFailed # {}) => ~langLoadState[WrittenLang].ready

\* C11 amended: after a fetch has raised, the language is written ready
\* exactly when the cycle still obtained at least one article for it; it is
\* written not ready when the failure was quota-classified (recovery gave
\* up) and when both fetches raised.
C11_FailedFetchReadiness ==
    (Wrote /\ fetchFailed # {}) =>
        /\ ~langLoadState[WrittenLang].loading
        /\ langLoadState[WrittenLang].ready
                <=> preloadedContent[WrittenLang] > 0
        /\ ev.type # "loaded" => ~langLoadState[WrittenLang].ready
        /\ fetchFailed = {"getNews", "getGeneralArticles"}
                => ~langLoadState[WrittenLang].ready

C11_Witness ==
    /\ ev.type = "loaded"
    /\ fetchFailed = {"getNews", "getGeneralArticles"}
    /\ ~langLoadState[WrittenLang].ready
    /\ ~langLoadState[WrittenLang].loading
    /\ preloadedContent[WrittenLang] = 0

\* C12 as stated: when a cycle is done with a language for which a fetch
\* has raised and it starts no cycle in that step, it goes on to its delay,
\* and from the delay it enters the next language in iteration order.
C12_AsStated ==
    [][\A c \in DOMAIN cycles :
        /\ (/\ c \in InFlight /\ cycles[c].phase # "delay"
            /\ ev'.cycle = c
            /\ ev'.type \in {"loaded", "failed", "abort", "crash"}
            /\ fetchFailed' # {})
            => (/\ cycles'[c].phase = "delay"
                /\ cycles'[c].li = cycles[c].li)
        /\ (/\ cycles[c].phase = "delay" /\ cycles'[c] # cycles[c]
            /\ cycles[c].li < NumLangs)
            => (/\ cycles'[c].phase = "news"
                /\ cycles'[c].li = cycles[c].li + 1)]_vars

----------------------------------------------------------------------------
(* Claims about word lookup                                                 *)

\* The step ends the lookup in flight.
LookupEnds == lookup.active /\ ~lookup'.active

\* C13 as stated: a lookup whose analysis succeeded and whose speech
\* synthesis failed adds an item for the word without audio, persists the
\* vocabulary with it, and shows no failure.
C13_AsStated ==
    [][(LookupEnds /\ lookup'.details = "ok" /\ lookup'.audio = "none") =>
        /\ Len(vocabulary') = Len(vocabulary) + 1
        /\ vocabulary'[1].word = lookup'.answer
        /\ vocabulary'[1].audio = "none"
        /\ vocabulary'[1].id \notin {vocabulary[i].id : i \in DOMAIN vocabulary}
        /\ \A i \in DOMAIN vocabulary : vocabulary'[i + 1] = vocabulary[i]
        /\ selectedWord' = vocabulary'[1]
        /\ storedVocab' = vocabulary'
        /\ alerts' = alerts
        /\ ~isLoading']_vars

\* C13 amended: the same, except that the vocabulary is persisted only when
\* the store accepts the write; when the write throws, the item is still
\* added in memory and what is stored stays as it was.
C13_LookupToleratesSpeechFailure ==
    [][(LookupEnds /\ lookup'.details = "ok" /\ lookup'.audio = "none") =>
        /\ Len(vocabulary') = Len(vocabulary) + 1
        /\ vocabulary'[1].word = lookup'.answer
        /\ vocabulary'[1].audio = "none"
        /\ vocabulary'[1].id \notin {vocabulary[i].id : i \in DOMAIN vocabulary}
        /\ \A i \in DOMAIN vocabulary : vocabulary'[i + 1] = vocabulary[i]
        /\ selectedWord' = vocabulary'[1]
        /\ storedVocab' \in {vocabulary', storedVocab}
        /\ alerts' = alerts
        /\ ~isLoading']_vars

C13_Witness ==
    /\ ~lookup.active /\ lookup.details = "ok" /\ lookup.audio = "none"
    /\ Len(vocabulary) = 2
    /\ vocabulary[1].word = lookup.answer
    /\ vocabulary[1].audio = "none"
    /\ storedVocab = vocabulary
    /\ alerts = 0
    /\ ~isLoading

\* C14: when analyzeWord fails, an alert is shown, the loading flag is
\* reset, and the vocabulary in memory and in the store is what it was when
\* the lookup started: no step of a lookup that ends in failure changes it.
C14_AnalysisFailureSurfaced ==
    [][/\ (LookupEnds /\ lookup'.details = "failed") =>
            /\ alerts' = alerts + 1
            /\ ~isLoading'
            /\ vocabulary' = lookup.vocab
            /\ UNCHANGED <<vocabulary, storedVocab>>
       /\ lookup'.active =>
            /\ UNCHANGED <<vocabulary, storedVocab>>
            /\ vocabulary' = lookup'.vocab
            /\ isLoading']_vars

C14_Witness ==
    /\ ~lookup.active /\ lookup.details = "failed"
    /\ lookup.audio = "pending"
    /\ alerts = 1
    /\ Len(vocabulary) = 1
    /\ storedVocab = vocabulary
    /\ ~isLoading

----------------------------------------------------------------------------
(* Claims about segmentation and time mapping                               *)

Last(seq) == seq[Len(seq)]

RECURSIVE Concat(_)
Concat(spans) ==
    IF spans = <<>> THEN <<>> ELSE Head(spans).text \o Concat(Tail(spans))

\* C16: the mapped spans partition the narration: the first starts at 0,
\* the last ends at the total duration, each span ends where the next one
\* starts, and no span ends before it starts.
C16_TimelinePartition ==
    allMapped # <<>> =>
        /\ allMapped[1].startTime = 0
        /\ Last(allMapped).endTime = Fine(duration)
        /\ \A i \in 1..(Len(allMapped) - 1) :
                allMapped[i].endTime = allMapped[i + 1].startTime
        /\ \A i \in DOMAIN allMapped :
                allMapped[i].startTime <= allMapped[i].endTime

C16_Witness ==
    /\ duration > 1
    /\ Len(allMapped) >= 2
    /\ \E i \in DOMAIN allMapped : allMapped[i].isWhitespace
    /\ allMapped[1].endTime > 0
    /\ allMapped[1].endTime < Fine(duration)

\* C17 as stated: on both segmentation paths the raw segments, concatenated
\* in order, are the article text, and each segment's startChar is the
\* offset of its text in the body.
C17_AsStated ==
    duration > 0 =>
        /\ Concat(allMapped) = content
        /\ \A i \in DOMAIN allMapped :
                SubSeq(content, allMapped[i].startChar + 1,
                       allMapped[i].endChar) = allMapped[i].text

\* C18 as stated: "Hello world. How are you?" over 10 seconds yields exactly
\* two sentences whose ranges together are exactly [0, 10], the first with
\* less than half of the time.
C18_AsStated ==
    (content = Scenario /\ duration = ScenarioDuration) =>
        /\ Len(sentences) = 2
        /\ sentences[1].startTime = 0
        /\ sentences[1].endTime = sentences[2].startTime
        /\ sentences[2].endTime = Fine(duration)
        /\ 2 * (sentences[1].endTime - sentences[1].startTime)
                < Fine(duration)

\* C18 amended: the scenario yields exactly two sentences whose ranges
\* together are exactly [0, 10].  The two sentences have twelve characters
\* and one terminator each, so the split differs from the even one only by
\* the space between them: the language-aware segmenter gives it to the
\* first sentence, which then gets more than half of the time; the
\* regular-expression split gives it to the second, and the first gets
\* less than half.
C18_ScenarioSplit ==
    (content = Scenario /\ duration = ScenarioDuration) =>
        /\ Len(sentences) = 2
        /\ sentences[1].startTime = 0
        /\ sentences[1].endTime = sentences[2].startTime
        /\ sentences[2].endTime = Fine(duration)
        /\ Len(sentences[1].text) + Len(sentences[2].text) = Len(content)
        /\ segmenterAvailable =>
            /\ Len(sentences[1].text) = Len(sentences[2].text) + 1
            /\ 2 * sentences[1].endTime > Fine(duration)
        /\ ~segmenterAvailable =>
            /\ Len(sentences[1].text) + 1 = Len(sentences[2].text)
            /\ 2 * sentences[1].endTime < Fine(duration)

C18_Witness ==
    /\ content = Scenario
    /\ duration = ScenarioDuration
    /\ segmenterAvailable
    /\ Len(sentences) = 2
    /\ Last(sentences[1].text) = " "
    /\ currentTime = duration

\* C19 as stated: when the published position equals the total duration,
\* the last sentence is the active sentence.
C19_AsStated ==
    (duration > 0 /\ sentences # <<>> /\ currentTime = duration) =>
        activeSentenceId = Last(sentences).id

----------------------------------------------------------------------------
(* Claims about the playback engines                                        *)

\* C15: on both engines a play() call with a loop range begins playback
\* inside the range, and at the start of the range when the offset it was
\* given lies outside the range.
C15_LoopClamp ==
    (started.at # -1 /\ started.range # NoRange) =>
        /\ (\/ started.offset < started.range.start
            \/ started.offset > started.range.end)
                => started.at = started.range.start
        /\ started.range.start <= started.at
        /\ started.at <= started.range.end

C15_Witness ==
    /\ ~isExternalAudio
    /\ started.range # NoRange
    /\ started.offset > started.range.end
    /\ started.range.start > 0
    /\ started.at = started.range.start
    /\ sourceRef.live /\ sourceRef.loop /\ sourceRef.offset = started.at
    /\ isPlaying

\* The step pauses the buffered engine: togglePlay stops the node that
\* plays without a loop.
PauseStep ==
    /\ ~isExternalAudio
    /\ isPlaying /\ sourceRef.live /\ ~sourceRef.loop
    /\ sourceRef' = NoNode

\* The step resumes the buffered engine after a pause short of the end,
\* with no seek in between.
ResumeStep ==
    /\ ~isExternalAudio
    /\ started.pausedAt >= 0 /\ started.pausedAt < duration
    /\ sourceRef = NoNode
    /\ sourceRef' # NoNode /\ ~sourceRef'.loop

\* C20 as stated: on the buffered engine a pause stops the node and records
\* the position it had reached, and the next resume starts a fresh node at
\* exactly that position, whether or not the ended event of the stopped
\* node has been delivered in between.
C20_AsStated ==
    [][/\ PauseStep =>
            /\ ~isPlaying'
            /\ pausedAtRef' = NodePosition(sourceRef)
       /\ ResumeStep =>
            /\ sourceRef'.live
            /\ sourceRef'.offset = started.pausedAt]_vars

----------------------------------------------------------------------------
(* Further claims about the handlers and the per-call fallback              *)

\* The call has ended and its last attempt was generateSpeech on the
\* DeepSeek handler.
DeepSeekSpeech ==
    /\ Finished
    /\ fcall.op = "generateSpeech"
    /\ Awaited(fcall) = "deepseek"

\* C28: generateSpeech on the DeepSeek handler answers what the OpenAI
\* handler answers under the same settings whenever an OpenAI key is
\* resolvable from the settings or the environment; otherwise it raises its
\* own failure and no request is sent.
C28_DeepSeekSpeechDelegates ==
    DeepSeekSpeech =>
        IF getKey("openai", fsettings, env) # 0
        THEN /\ fcall.out[1] = OpenAISpeech("deepseek", fsettings, env, svc)
             /\ fcall.out[1].ok =>
                    /\ fcall.out[1].served = "openai"
                    /\ fcall.out[1].encoding = "mp3"
             /\ ~fcall.out[1].ok =>
                    fcall.out[1].message = <<"OpenAI", "TTS", "Failed">>
        ELSE /\ fcall.stage = "raised"
             /\ includes(fcall.out[1].message,
                         <<"does", "not", "support", "TTS">>)
             /\ ~SendsRequest("deepseek", "generateSpeech", fsettings, env)

C28_Witness ==
    /\ DeepSeekSpeech
    /\ getKey("openai", fsettings, env) = 0
    /\ getKey("deepseek", fsettings, env) # 0
    /\ svc["deepseek"] = "ok"
    /\ fcall.stage = "raised"

\* C30 as stated: for every value of settings.primary the first handler
\* executeWithFallback invokes is the handler of settings.primary.
C30_AsStated ==
    fcall.stage # "idle" => fcall.attempts[1] = getHandler(fsettings.primary)

\* The position of the item with this id in a vocabulary (0 when absent).
IndexOf(vocab, id) ==
    IF id \in Ids(vocab)
    THEN CHOOSE i \in 1..Len(vocab) : vocab[i].id = id
    ELSE 0

\* C27: a review result applied to an item at stage s leaves, on success,
\* stage s+1 and the due time now + INTERVALS[min(s+1, last index)], on
\* failure stage 0 and the due time now + INTERVALS[0]; every other item of
\* the vocabulary is as it was.
C27_ReviewScheduling ==
    [][reviewed'.id # 0 =>
        LET i == IndexOf(vocabulary, reviewed'.id)
            s == vocabulary[i].reviewStage
            last == Len(INTERVALS) - 1
        IN  /\ i # 0
            /\ Len(vocabulary') = Len(vocabulary)
            /\ \A j \in 1..Len(vocabulary) :
                   j # i => vocabulary'[j] = vocabulary[j]
            /\ vocabulary'[i].id = vocabulary[i].id
            /\ vocabulary'[i].word = vocabulary[i].word
            /\ vocabulary'[i].audio = vocabulary[i].audio
            /\ IF reviewed'.success
               THEN /\ vocabulary'[i].reviewStage = s + 1
                    /\ vocabulary'[i].nextReviewAt =
                           now + INTERVALS[(IF s + 1 < last THEN s + 1
                                            ELSE last) + 1]
               ELSE /\ vocabulary'[i].reviewStage = 0
                    /\ vocabulary'[i].nextReviewAt = now + INTERVALS[1]
    ]_vars

\* A success has just taken an item past the end of the interval table, a
\* day after it was added, next to another item.
C27_Witness ==
    /\ reviewed.id # 0
    /\ reviewed.success
    /\ now = 1
    /\ Len(vocabulary) = 2
    /\ vocabulary[IndexOf(vocabulary, reviewed.id)].reviewStage
           = Len(INTERVALS)
    /\ vocabulary[IndexOf(vocabulary, reviewed.id)].nextReviewAt = 31

\* C29, as stated: every step keeps every item of the vocabulary, with the
\* stage and due time it has, unless the step is a review of that item; a
\* lookup that completes only adds an item.
C29_AsStated ==
    [][\A i \in 1..Len(vocabulary) :
          \/ reviewed'.id = vocabulary[i].id
          \/ \E j \in 1..Len(vocabulary') : vocabulary'[j] = vocabulary[i]
    ]_vars

\* C26, as stated for a settings save: every call of handleSettingsSave, by
\* the settings modal or by the recovery branch, adopts the new settings
\* and restarts the preload under them with every language loading,
\* whether or not the write to storage went through.
C26_AsStated ==
    [][(saves' # saves \/ ev'.type \in {"restart", "crash"}) =>
        /\ Len(cycles') = Len(cycles) + 1
        /\ cycles'[Len(cycles')].settings = apiSettings'
        /\ cycles'[Len(cycles')].phase = "news"
        /\ langLoadState' = ResetLoadState
        /\ preloadedContent' = NoContent
    ]_vars

----------------------------------------------------------------------------
(* Claims about looping                                                     *)

\* C21, as stated: on the streamed engine a sentence loop whose range ends
\* within the medium keeps playing: the playing flag falls only in a step
\* that also drops the loop range (a stop, a seek or an article switch).
C21_AsStated ==
    [][(/\ isExternalAudio
        /\ isPlaying
        /\ loopingSentenceId # NoId
        /\ loopRange # NoRange
        /\ loopRange.end <= duration
        /\ ~isPlaying')
            => loopRange' = NoRange]_vars

\* Where the playhead of a looping buffer source node is: it entered the
\* loop at n.offset and wraps from loopEnd to loopStart.
LoopPosition(n) ==
    n.loopStart
        + ((n.offset + (clock - n.startedAt) - n.loopStart)
              % (n.loopEnd - n.loopStart))

\* C22: on the buffered engine every animation frame of a loop whose range
\* lies within the medium publishes loopStart + ((elapsed - loopStart) mod
\* loopDuration), where elapsed is the start offset plus the time played;
\* that is the playhead of the node, at or after loopStart and before
\* loopEnd.
C22_LoopPosition ==
    [][(/\ ~isExternalAudio
        /\ isPlaying
        /\ loopRange # NoRange
        /\ sourceRef.loop
        /\ loopRange.end <= duration
        /\ AnimationFrame)
            => /\ currentTime' = LoopPosition(sourceRef)
               /\ currentTime' =
                      loopRange.start
                          + (((clock - startTimeRef) - loopRange.start)
                                % (loopRange.end - loopRange.start))
               /\ loopRange.start <= currentTime'
               /\ currentTime' < loopRange.end]_vars

\* A loop entered inside its range has wrapped and the frame has published
\* the wrapped position.
C22_Witness ==
    /\ ~isExternalAudio
    /\ isPlaying
    /\ loopRange # NoRange
    /\ sourceRef.loop
    /\ loopRange.end <= duration
    /\ sourceRef.offset > loopRange.start
    /\ sourceRef.offset + (clock - sourceRef.startedAt) > loopRange.end
    /\ loopRange.start > 0
    /\ currentTime = LoopPosition(sourceRef)
    /\ currentTime # sourceRef.offset

----------------------------------------------------------------------------
(* Claims about the audio backends                                          *)

\* C23: a change of the volume in a mounted reader changes the gain or the
\* element volume and nothing else of the playback state, and running the
\* volume effect again with the same value changes nothing.
C23_VolumeOnly ==
    [][(article # 0 /\ article' = article /\ volume' # volume) =>
        /\ UNCHANGED <<isPlaying, currentTime, loopRange, loopingSentenceId,
                       sourceRef, audioEl, audioElRef, audioContext,
                       gainNodeRef, pausedAtRef, startTimeRef, duration,
                       isExternalAudio, ended, openContexts, elements>>
        /\ volumeEffect(isExternalAudio', audioElRef', gainNodeRef', gain',
                        elVolume', volume')
               = [gain |-> gain', elVolume |-> elVolume']
        /\ gain' # gain => gain' = volume'
        /\ elVolume' # elVolume => elVolume' = volume'
    ]_vars

\* The volume has been turned down while a node plays.
C23_Witness ==
    /\ article # 0
    /\ ~isExternalAudio
    /\ isPlaying
    /\ sourceRef.live
    /\ volume = 1
    /\ gain = 1

\* C24, as stated: at most one audio element or audio context is alive,
\* and no context the reader has let go of still plays a node.
C24_AsStated ==
    /\ Cardinality(openContexts) + Cardinality(elements) <= 1
    /\ sounding = {}

\* C25, as stated: the sentences of the reader are empty while the duration
\* is not known, and otherwise are the spoken spans of the displayed
\* article's text over the duration.
C25_AsStated ==
    article # 0 =>
        IF duration = 0 THEN sentences = <<>>
        ELSE sentences =
                Spoken(MapSpans(rawSegments(ArticleContent(article),
                                            segmenterAvailable), duration))

----------------------------------------------------------------------------
(* Claims about the words of the vocabulary                                 *)

\* The items of `vocab` that hold `word`, letter case apart.
Holding(vocab, word) ==
    {i \in 1..Len(vocab) : /\ vocab[i].word # Undefined
                           /\ LowerWord(vocab[i].word) = LowerWord(word)}

\* C40 as stated: after any sequence of lookups no two vocabulary items hold
\* the same word case-insensitively, whatever word field the provider's
\* response carries; and no lookup is started for a word an item holds.
C40_AsStated ==
    /\ \A i, j \in 1..Len(vocabulary) :
          (i # j /\ vocabulary[i].word # Undefined)
              => Holding(vocabulary, vocabulary[i].word) = {i}
    /\ lookup.active => Holding(lookup.vocab, lookup.word) = {}

----------------------------------------------------------------------------
(* Claims about readiness and the end of preloading                         *)

\* C38: in every reachable state a language that is marked ready has at
\* least one preloaded article, over every interleaving of preload
\* completions, recovery restarts and settings saves; so the content a
\* language button opens is not empty at the moment the button is enabled.
C38_ReadyHasContent ==
    \A l \in Languages :
        langLoadState[l].ready => preloadedContent[l] > 0

\* A cycle that has been superseded by a later one has just completed a
\* language with articles: the language is ready and its content is there.
C38_Witness ==
    /\ ev.type = "loaded"
    /\ ev.cycle < Len(cycles)
    /\ langLoadState[cycles[ev.cycle].li].ready
    /\ preloadedContent[cycles[ev.cycle].li] > 0

\* What the language selector shows as loading: a missing entry counts as
\* {loading: true, ready: false}.
StillLoading(l) == ~langLoadState[l].present \/ langLoadState[l].loading

\* Every refreshContent invocation has returned or been rejected.
CyclesStopped ==
    \A c \in DOMAIN cycles : cycles[c].phase \in {"done", "crashed"}

\* C39 as stated: when every provider call, remote-config fetch and delay
\* eventually settles and the remote store's keys stay fixed, every preload
\* cycle eventually stops and every language eventually reaches
\* loading = false for good.
C39_AsStated ==
    <>[](CyclesStopped /\ \A l \in Languages : ~StillLoading(l))

----------------------------------------------------------------------------
(* Claims about the degenerate timeline                                     *)

----------------------------------------------------------------------------
(* Claims about the reader's playback state                                 *)

\* A source node has been started and has neither been stopped nor reached
\* the end of the buffer.
NodePlaying == sourceRef # NoNode /\ sourceRef.live

\* C33 as stated: on the buffered engine, once the ended events that are
\* due have been delivered, isPlaying is true exactly when a started,
\* not-yet-stopped source node exists; in particular it stays true after
\* the ended event of a node that a seek, a rewind or forward, or a
\* sentence click replaced during playback.
C33_AsStated ==
    (~isExternalAudio /\ ended = <<>> /\ ~FinishDue)
        => (isPlaying <=> NodePlaying)

\* C34 as stated: loopingSentenceId is non-null if and only if loopRange
\* is non-null, after any sequence of sentence click, play, pause, seek,
\* rewind or forward, ended event and article switch.
C34_AsStated ==
    article # 0 => ((loopingSentenceId # NoId) <=> (loopRange # NoRange))

\* C35 as stated: in every state audioBuffer and duration are those of the
\* displayed article, or empty and 0: a decode or a metadata load that
\* completes after the displayed article has changed sets neither.
C35_AsStated ==
    article # 0 =>
        /\ audioBuffer \in {0, article}
        /\ duration \in {0, ArticleDuration(article)}

\* C36 as stated: in every state of the reader 0 <= currentTime <= duration,
\* on both engines.
C36_AsStated ==
    article # 0 => (0 <= currentTime /\ currentTime <= duration)

\* The volume the backend in use plays at: the element's volume or the
\* gain of the node the sources are connected to.
BackendVolume == IF isExternalAudio THEN elVolume ELSE gain

\* C37 as stated: after any sequence of volume changes and article
\* switches the active backend's effective volume equals the volume held
\* in the playback state.
C37_AsStated ==
    (article # 0 /\ (audioElRef # 0 \/ gainNodeRef # 0))
        => BackendVolume = volume

----------------------------------------------------------------------------
(* Claims about the reader's clock                                          *)

\* C31: while the reader is mounted exactly one animation-frame request is
\* scheduled, the one rafRef holds, whether playing or paused and across
\* every change of the playing flag, the loop range, the duration or the
\* engine; once the reader is torn down none is scheduled.
C31_OneFrameScheduled ==
    IF article # 0 THEN rafRef # 0 /\ frames = {rafRef}
    ELSE frames = {}

\* A reader mounted again after a teardown, on the streamed engine, playing
\* a sentence in a loop: its one frame is scheduled.
C31_Witness ==
    /\ article # 0
    /\ handles = MaxHandles
    /\ isExternalAudio /\ isPlaying /\ loopRange # NoRange
    /\ openContexts = {}
    /\ frames = {rafRef}

============================================================================
